---- MODULE Spec2Model ----
(***************************************************************************)
(* Marduk (NABU PC emulator): the platform glue around the imported chip   *)
(* cores.  The model follows the 0.26e revision of the main program        *)
(* (src/unnamed/part_001): the memory and port bus, the interrupt network  *)
(* built from PSG ports A/B and an 8-to-3 priority encoder, the keyboard   *)
(* ring buffer, the scanline boundary of the event loop, and the floppy    *)
(* disk controller (src/disk.c).                                           *)
(***************************************************************************)
EXTENDS Integers, Naturals, Sequences, FiniteSets, TLC

(***************************************************************************)
(* Bounds of the model                                                     *)
(***************************************************************************)

\* host key events injected in one behaviour of the bus specification
MaxPuts == 3

\* bytes the parallel-port output stream records before the model stops
\* strobing
MaxLptOut == 2

\* puts of one fill run of the keyboard ring (the ring holds 256 slots, so
\* the fill runs past the point where the 8-bit write cursor wraps)
MaxFill == 256

\* scanline boundaries in one behaviour of the scanline specification
MaxLines == 5

\* bytes written to the disk controller's ports in one behaviour
MaxCmds == 3

\* data-port reads in one behaviour of the disk controller specification
MaxReads == 4

\* data-port reads in one behaviour of the cursor specification: enough to
\* move the cursor past the length of a status block
MaxCursorReads == 8

\* cells past the end of the transfer buffer a run-away cursor may reach
MaxOverrun == 2

\* bytes the modem socket takes before the model stops sending
MaxTx == 1

\* runs of the host audio callback in one behaviour
MaxCallbacks == 2

\* scanline boundaries in one behaviour of the frame specification: two
\* frames of 262 and one boundary more
MaxFrameLines == 525

(***************************************************************************)
(* C integer arithmetic                                                    *)
(***************************************************************************)

Byte == 0..255

\* (x >> k) & 1
Bit(x, k) == (x \div (2^k)) % 2

\* a & b on 8-bit operands
RECURSIVE AndBits(_, _, _)
AndBits(a, b, k) ==
  IF k = 0 THEN 0
  ELSE (a % 2) * (b % 2) + 2 * AndBits(a \div 2, b \div 2, k - 1)

BitAnd(a, b) == AndBits(a, b, 8)

\* a | b on 8-bit operands
BitOr(a, b) == a + b - BitAnd(a, b)

\* the low 8 bits of ~x
BitNot(x) == 255 - x

\* storing a uint8_t into a (signed) char cell and reading it back
ToChar(b) == IF b > 127 THEN b - 256 ELSE b
ToU8(c) == c % 256

(***************************************************************************)
(* Input sets                                                              *)
(***************************************************************************)

\* addresses around the two ROM sizes and the ends of the address space
Addrs == {0, 4095, 4096, 8191, 8192, 65535}

\* the bytes of the ROM image file, and what earlier writes left in RAM
RomImage(a) == (a * 7 + 195) % 256
RamImage(a) == (a * 5 + 17) % 256

(***************************************************************************)
(* State                                                                   *)
(***************************************************************************)

VARIABLES
  RAM,                        \* RAM[65536], at the addresses of Addrs
  ROM,                        \* ROM[8192], at the addresses of Addrs below 8192
  romsize,                    \* 4096 or 8192
  ctrlreg,                    \* control register latch
  psg,                        \* PSG register file reg[0x20]
  psg_reg_address,            \* latched PSG register address
  psg_porta,                  \* interrupt enable mask (PSG port A)
  psg_portb,                  \* interrupt status byte (PSG port B)
  hccarint,                   \* receive-ready line
  hccatint,                   \* transmit-ready line
  keybdint,                   \* keyboard-data-ready line
  vdpint,                     \* video-frame line
  interrupts,                 \* composite word of the four lines
  cpu,                        \* int_pending, int_data of the Z80 core
  enc,                        \* GS, Q0, Q1, Q2, EO of the latest recompute
  keyboard_buffer,            \* char keyboard_buffer[256], the cells written
  keyboard_buffer_write_ptr,
  keyboard_buffer_read_ptr,
  gotmodem,                   \* modem connected: modem_init() returned 0
  modem_tx,                   \* bytes sent to the modem socket
  samples,                    \* samples PSG_calc() has generated
  rendered,                   \* scanlines rendered since the last frame end
  modem_rx,                   \* bytes readable on the descriptor mosock names
  vdp,                        \* video chip: address latch and register 1
  lpt,                        \* parallel-port output stream open
  lpt_data,                   \* latched parallel-port byte
  lpt_out,                    \* bytes emitted to the output stream
  running,                    \* FALSE once fatal_diag has exited the process
  last,                       \* the operation just performed and its result
  nputs,                      \* keyboard bytes put so far in this behaviour
  fifo,                       \* the bytes put and not yet read, in order
  disk,                       \* FILE *disk[2]: size of the open image, 0 = NULL
  disktype,                   \* DISKTYPE disktype[2]
  trk, sec, dat, stat,        \* controller registers
  disksys_light,              \* selected drive: 0 none, 1 = A, 2 = B
  tick,                       \* rotational position
  mode,                       \* DM_NONE or DM_RDSEC
  buf, bufptr, buflen,        \* transfer buffer, cursor and length
  xfer,                       \* the transfer the last disk port write began
  scanline,                   \* scanline index of the event loop
  next_watchdog,              \* boundaries since the queue was last non-empty
  dog,                        \* the watchdog's view of the queue at each boundary
  nlines,                     \* scanline boundaries so far in this behaviour
  ncmds,                      \* disk port writes so far in this behaviour
  nreads,                     \* data-port reads since the last disk port write
  frames,                     \* calls of next_frame() so far
  death_flag,                 \* the quit flag
  at,                         \* "top": at the loop test; "step": before z80_step
  next_fire,                  \* the throttle's deadline, in ns of the second
  clock,                      \* tv_nsec of the host clock at its last reading
  pace,                       \* how the host's time passes between readings
  nap                         \* what the last throttle() asked nanosleep for

memVars == <<RAM, ROM, romsize>>
intVars == <<psg, psg_porta, psg_portb, hccarint, hccatint, keybdint, vdpint,
             interrupts, cpu, enc>>
kbdVars == <<keyboard_buffer, keyboard_buffer_write_ptr,
             keyboard_buffer_read_ptr>>
devVars == <<gotmodem, modem_tx, samples, modem_rx, vdp, lpt, lpt_data, lpt_out>>
diskVars == <<disk, disktype, trk, sec, dat, stat, disksys_light, tick, mode,
              buf, bufptr, buflen, xfer, ncmds, nreads>>
schedVars == <<scanline, next_watchdog, dog, nlines, frames, death_flag,
               next_fire, clock, pace, nap, rendered>>

vars == <<RAM, ROM, romsize, ctrlreg, psg, psg_reg_address, psg_porta,
          psg_portb, hccarint, hccatint, keybdint, vdpint, interrupts, cpu,
          enc, keyboard_buffer, keyboard_buffer_write_ptr,
          keyboard_buffer_read_ptr, gotmodem, modem_tx, samples, modem_rx, vdp, lpt, lpt_data,
          lpt_out, running, last, nputs, fifo, disk, disktype, trk, sec, dat,
          stat, disksys_light, tick, mode, buf, bufptr, buflen, xfer, scanline,
          next_watchdog, dog, nlines, ncmds, nreads, frames, death_flag, at,
          next_fire, clock, pace, nap, rendered>>

RomAddrs == {a \in Addrs : a < 8192}

\* record of the last operation: its name, its argument (address or port),
\* the value it carried (the byte written; for a read of port 0x90 the byte
\* keyboard_buffer_get returned), the value it returned, and whether it
\* called update_interrupts
Op(name, arg, val, ret, upd) ==
  [op |-> name, arg |-> arg, val |-> val, ret |-> ret, upd |-> upd]

(***************************************************************************)
(* Memory map                                                              *)
(***************************************************************************)

\* mem_read that ignores the ROM-disable bit
mem_read_nobit(addr) ==
  IF addr < romsize
    THEN ROM[addr]
    ELSE RAM[addr]

mem_read(addr) ==
  IF Bit(ctrlreg, 0) = 0 /\ addr < romsize
    THEN ROM[addr]
    ELSE RAM[addr]

\* mem_write that drops writes to ROM-shadowed addresses
mem_write_shadow(addr, val) ==
  IF addr < romsize THEN RAM ELSE [RAM EXCEPT ![addr] = val]

mem_write(addr, val) == [RAM EXCEPT ![addr] = val]

(***************************************************************************)
(* Interrupt network                                                       *)
(***************************************************************************)

\* the encoder with group-select left low when no input is active
int_prio_enc_idle(EI, I0, I1, I2, I3, I4, I5, I6, I7) ==
  IF EI = 1
    THEN [GS |-> 1, Q0 |-> 1, Q1 |-> 1, Q2 |-> 1, EO |-> 1]
  ELSE IF I0 * I1 * I2 * I3 * I4 * I5 * I6 * I7 = 1
    THEN [GS |-> 0, Q0 |-> 1, Q1 |-> 1, Q2 |-> 1, EO |-> 0]
  ELSE IF I7 = 0
    THEN [GS |-> 0, Q0 |-> 0, Q1 |-> 0, Q2 |-> 0, EO |-> 1]
  ELSE IF I6 = 0
    THEN [GS |-> 0, Q0 |-> 1, Q1 |-> 0, Q2 |-> 0, EO |-> 1]
  ELSE IF I5 = 0
    THEN [GS |-> 0, Q0 |-> 0, Q1 |-> 1, Q2 |-> 0, EO |-> 1]
  ELSE IF I4 = 0
    THEN [GS |-> 0, Q0 |-> 1, Q1 |-> 1, Q2 |-> 0, EO |-> 1]
  ELSE IF I3 = 0
    THEN [GS |-> 0, Q0 |-> 0, Q1 |-> 0, Q2 |-> 1, EO |-> 1]
  ELSE IF I2 = 0
    THEN [GS |-> 0, Q0 |-> 1, Q1 |-> 0, Q2 |-> 1, EO |-> 1]
  ELSE IF I1 = 0
    THEN [GS |-> 0, Q0 |-> 0, Q1 |-> 1, Q2 |-> 1, EO |-> 1]
  ELSE [GS |-> 0, Q0 |-> 1, Q1 |-> 1, Q2 |-> 1, EO |-> 1]

\* an encoder that holds error-output high with all inputs high
int_prio_enc_sat(EI, I0, I1, I2, I3, I4, I5, I6, I7) ==
  IF EI = 0 /\ I0 * I1 * I2 * I3 * I4 * I5 * I6 * I7 = 1
    THEN [GS |-> 1, Q0 |-> 1, Q1 |-> 1, Q2 |-> 1, EO |-> 1]
    ELSE int_prio_enc_idle(EI, I0, I1, I2, I3, I4, I5, I6, I7)

\* the 8-to-3 priority encoder; inputs and outputs are 0 or 1
int_prio_enc(EI, I0, I1, I2, I3, I4, I5, I6, I7) ==
  IF EI = 1
    THEN [GS |-> 1, Q0 |-> 1, Q1 |-> 1, Q2 |-> 1, EO |-> 1]
  ELSE IF I0 * I1 * I2 * I3 * I4 * I5 * I6 * I7 = 1
    THEN [GS |-> 1, Q0 |-> 1, Q1 |-> 1, Q2 |-> 1, EO |-> 0]
  ELSE IF I7 = 0
    THEN [GS |-> 0, Q0 |-> 0, Q1 |-> 0, Q2 |-> 0, EO |-> 1]
  ELSE IF I6 = 0
    THEN [GS |-> 0, Q0 |-> 1, Q1 |-> 0, Q2 |-> 0, EO |-> 1]
  ELSE IF I5 = 0
    THEN [GS |-> 0, Q0 |-> 0, Q1 |-> 1, Q2 |-> 0, EO |-> 1]
  ELSE IF I4 = 0
    THEN [GS |-> 0, Q0 |-> 1, Q1 |-> 1, Q2 |-> 0, EO |-> 1]
  ELSE IF I3 = 0
    THEN [GS |-> 0, Q0 |-> 0, Q1 |-> 0, Q2 |-> 1, EO |-> 1]
  ELSE IF I2 = 0
    THEN [GS |-> 0, Q0 |-> 1, Q1 |-> 0, Q2 |-> 1, EO |-> 1]
  ELSE IF I1 = 0
    THEN [GS |-> 0, Q0 |-> 0, Q1 |-> 1, Q2 |-> 1, EO |-> 1]
  ELSE [GS |-> 0, Q0 |-> 1, Q1 |-> 1, Q2 |-> 1, EO |-> 1]

\* the encoder fed with the word's bits in reverse order
int_prio_enc_alt_rev(EI, word) ==
  int_prio_enc(EI, Bit(word, 7), Bit(word, 6), Bit(word, 5), Bit(word, 4),
               Bit(word, 3), Bit(word, 2), Bit(word, 1), Bit(word, 0))

\* the same encoder fed with an 8-bit word
int_prio_enc_alt(EI, word) ==
  int_prio_enc(EI, Bit(word, 0), Bit(word, 1), Bit(word, 2), Bit(word, 3),
               Bit(word, 4), Bit(word, 5), Bit(word, 6), Bit(word, 7))

\* the composite word after one line has been copied into its bit
SetLineBit(word, mask, level) ==
  IF level # 0 THEN BitOr(word, mask) ELSE BitAnd(word, BitNot(mask))

\* a status byte that ORs the new outputs into the old low nibble
StatusByte_nomask(portb, e) ==
  BitOr(portb, e.EO + 2 * e.Q0 + 4 * e.Q1 + 8 * e.Q2)

\* the status byte: the high nibble kept, the low nibble rebuilt from the
\* encoder outputs
StatusByte(portb, e) ==
  BitOr(BitAnd(portb, 240), e.EO + 2 * e.Q0 + 4 * e.Q1 + 8 * e.Q2)

\* the request level passed to z80_gen_int: !GS
IntState_gs(e) == e.GS

IntState(e) == 1 - e.GS

\* acknowledge-cycle data that keeps bit 0 of the status byte
IntData_low4(pb) == BitAnd(pb, 15)

\* the acknowledge-cycle data passed to z80_gen_int
IntData(pb) == BitAnd(pb, 14)

\* the encoder input word that leaves the mask out
IntPrio_nomask(word, porta) == BitNot(word)

\* the encoder input word
IntPrio(word, porta) == BitNot(BitAnd(word, porta))

\* update_interrupts(), as a function of the globals it reads: the new
\* composite word, the encoder outputs, the new status byte (also written to
\* PSG register 15) and the two arguments of the z80_gen_int call
update_interrupts(rx, tx, kb, vd, word, porta, portb) ==
  LET w1 == SetLineBit(word, 128, rx)
      w2 == SetLineBit(w1, 64, tx)
      w3 == SetLineBit(w2, 32, kb)
      w4 == SetLineBit(w3, 16, vd)
      e == int_prio_enc_alt(0, IntPrio(w4, porta))
      pb == StatusByte(portb, e)
  IN [interrupts |-> w4,
      enc |-> e,
      psg_portb |-> pb,
      state |-> IntState(e),
      data |-> IntData(pb)]

\* PSG register file access
PSG_writeReg(regs, reg, val) == [regs EXCEPT ![reg] = val]
PSG_readReg(regs, reg) == regs[reg % 32]

\* the interrupt-request primitive of the CPU core
z80_gen_int(c, state, data) ==
  [c EXCEPT !.int_pending = (state # 0), !.int_data = data]

\* the state change of one update_interrupts() call made with the line
\* levels rx, tx, kb, vd, the mask porta and the register file regs
Recompute(rx, tx, kb, vd, porta, regs) ==
  LET u == update_interrupts(rx, tx, kb, vd, interrupts, porta, psg_portb)
  IN /\ interrupts' = u.interrupts
     /\ enc' = u.enc
     /\ psg_portb' = u.psg_portb
     /\ psg' = PSG_writeReg(regs, 15, u.psg_portb)
     /\ cpu' = z80_gen_int(cpu, u.state, u.data)

(***************************************************************************)
(* Keyboard ring buffer                                                    *)
(***************************************************************************)

\* The 256-cell array is kept as the cells written so far; a cell never
\* written holds the 0 of static storage.
Cell(kbuf, i) == IF i \in DOMAIN kbuf THEN kbuf[i] ELSE 0

Store(kbuf, i, c) ==
  [j \in DOMAIN kbuf \cup {i} |-> IF j = i THEN c ELSE kbuf[j]]

\* a put whose write cursor is a plain int and runs past 255
keyboard_buffer_put_nowrap(kbuf, w, code) ==
  [buf |-> Store(kbuf, w, ToChar(code)), w |-> w + 1]

\* keyboard_buffer[keyboard_buffer_write_ptr++] = code
keyboard_buffer_put(kbuf, w, code) ==
  [buf |-> Store(kbuf, w, ToChar(code)), w |-> (w + 1) % 256]

keyboard_buffer_empty(r, w) == IF r = w THEN 1 ELSE 0

\* a get that hands back the char cell without the conversion to uint8_t
keyboard_buffer_get_char(kbuf, r, w) ==
  IF r # w
    THEN [ret |-> Cell(kbuf, r), r |-> (r + 1) % 256]
    ELSE [ret |-> 255, r |-> r]

\* a get without the emptiness test
keyboard_buffer_get_nocheck(kbuf, r, w) ==
  [ret |-> ToU8(Cell(kbuf, r)), r |-> (r + 1) % 256]

keyboard_buffer_get(kbuf, r, w) ==
  IF r # w
    THEN [ret |-> ToU8(Cell(kbuf, r)), r |-> (r + 1) % 256]
    ELSE [ret |-> 255, r |-> r]

(***************************************************************************)
(* Floppy disk controller (src/disk.c)                                     *)
(***************************************************************************)

\* status bits
DSK_ENRDY == 128
DSK_ESEEK == 16
DSK_DRQ == 2
DSK_INDEX == 2
DSK_BUSY == 1

\* controller modes
DM_NONE == 0
DM_RDSEC == 1

\* uint8_t buf[1024]
BufSize == 1024

\* the out-of-band block of a 200K floppy
oob200 ==
  <<161, 161, 78, 78, 78, 78, 78, 78,
    78, 78, 78, 78, 78, 78, 0, 0,
    0, 0, 0, 40, 0, 3, 7, 0,
    194, 0, 95, 0, 224, 0, 0, 24,
    1, 0, 3, 7, 78, 251>>

\* the byte at position pos of an image file of the given size
DiskImage(size, pos) ==
  (pos * 3 + (pos \div 1024) * 7 + (size \div 204800)) % 256

\* what a read one cell or more past the end of buf may find
StrayBytes == {0, 229}

\* (unsigned)(disksys_light - 1): 0 - 1 wraps to UINT_MAX, which is 65535
\* or more in every C implementation
DriveIndex(light) == IF light = 0 THEN 65535 ELSE light - 1

\* stat &= ~bits
ClearBits(s, bits) == BitAnd(s, 255 - bits)

\* the controller's static variables as one record
Fdc ==
  [disk |-> disk, trk |-> trk, sec |-> sec, dat |-> dat, stat |-> stat,
   disksys_light |-> disksys_light, mode |-> mode, buf |-> buf,
   bufptr |-> bufptr, buflen |-> buflen]

\* The 1024-cell buffer is kept as the file block last read into it (file
\* is the image's size, 0 before any read), with the cells stored over it
\* since then.
BufCell(b, i) ==
  IF i \in DOMAIN b.patch THEN b.patch[i]
  ELSE IF b.file # 0 THEN DiskImage(b.file, b.off + i)
  ELSE 0

\* buf[i] = c for every i of the domain of the block cs
BufStore(b, cs) ==
  [b EXCEPT !.patch = [i \in DOMAIN b.patch \cup DOMAIN cs |->
                         IF i \in DOMAIN cs THEN cs[i] ELSE b.patch[i]]]

\* fread(buf, 1, 1024, file) with the file position at off.  Image sizes
\* and sector offsets are multiples of 1024: the file holds the whole
\* block, or the position is at or past its end and no byte is read.
fread(b, size, off) ==
  IF off + BufSize <= size
    THEN [file |-> size, off |-> off, patch |-> <<>>]
    ELSE b

\* a sector test that lets every sector number but 0 through
BadSector_zero(s) == s = 0

\* (!sec)||(sec>5)
BadSector(s) == s = 0 \/ s > 5

\* d>=2
BadDrive(d) == d >= 2

\* an end-of-transfer test that waits for the cursor to pass the last byte
LastByte_len(ptr, len) == ptr = len

\* bufptr==buflen-1
LastByte(ptr, len) == ptr = len - 1

\* case 0x88 once the drive index and the sector register have passed
\* their tests: seek, read 1024 bytes, start the transfer
RDSEC(f, d) ==
  [f EXCEPT !.buf = fread(f.buf, f.disk[d], (f.trk * 5 + (f.sec - 1)) * 1024),
            !.bufptr = 0,
            !.stat = BitOr(f.stat, DSK_DRQ + DSK_BUSY),
            !.mode = DM_RDSEC,
            !.buflen = 1024]

\* disksys_do: the outcomes of command byte data on controller f.  Each
\* outcome is the controller afterwards and whether the process died.
\* fseek and fread on a null FILE pointer are undefined: the process dies
\* in the C library, or the calls fail and leave buf as it was.
disksys_do(f, data) ==
  LET d == DriveIndex(f.disksys_light)
      ok(g) == {[f |-> g, crash |-> FALSE]}
  IN CASE data \in {7, 9} ->
            ok([f EXCEPT !.trk = 0,
                         !.stat = ClearBits(f.stat, DSK_BUSY + DSK_ENRDY)])
       [] data = 89 -> ok([f EXCEPT !.trk = (f.trk + 1) % 256])
       [] data = 136 ->
            LET s == ClearBits(f.stat, DSK_ENRDY + DSK_ESEEK)
                g == [f EXCEPT !.stat = s]
            IN IF BadDrive(d)
                 THEN ok([g EXCEPT !.stat = BitOr(s, DSK_ENRDY)])
                 ELSE IF BadSector(g.sec)
                   THEN ok([g EXCEPT !.stat = BitOr(s, DSK_ESEEK)])
                   ELSE IF g.disk[d] = 0
                     THEN {[f |-> g, crash |-> TRUE],
                           [f |-> [g EXCEPT !.bufptr = 0,
                                            !.stat = BitOr(s, DSK_DRQ + DSK_BUSY),
                                            !.mode = DM_RDSEC,
                                            !.buflen = 1024],
                            crash |-> FALSE]}
                     ELSE ok(RDSEC(g, d))
       [] data = 192 ->
            ok([f EXCEPT !.buf = BufStore(f.buf,
                                          [i \in 0..5 |->
                                             CASE i = 0 -> f.trk
                                               [] i = 2 -> f.sec
                                               [] i = 3 -> 3
                                               [] OTHER -> 0]),
                         !.buflen = 6,
                         !.mode = DM_RDSEC])
       [] data = 208 ->
            ok([f EXCEPT !.stat = ClearBits(f.stat, DSK_BUSY + DSK_ENRDY)])
       [] data = 224 ->
            ok([f EXCEPT !.buf = BufStore(f.buf,
                                          [i \in 0..37 |-> oob200[i + 1]]),
                         !.bufptr = 0,
                         !.buflen = 38,
                         !.stat = BitOr(f.stat, DSK_DRQ + DSK_BUSY),
                         !.mode = DM_RDSEC])
       [] OTHER -> ok(f)

\* disksys_read: the outcomes of a read of controller port `port`: the
\* controller afterwards and the byte returned.  A cursor that has left
\* buf reads whatever lies behind it.
disksys_read(f, port) ==
  LET one(g, b) == {[f |-> g, ret |-> b]}
  IN CASE port % 16 = 0 -> one(f, f.stat)
       [] port % 16 = 1 -> one(f, f.trk)
       [] port % 16 = 2 -> one(f, f.sec)
       [] port % 16 = 3 ->
            IF f.mode = DM_RDSEC
              THEN IF LastByte(f.bufptr, f.buflen)
                THEN one([f EXCEPT !.mode = 0,
                                   !.stat = ClearBits(f.stat,
                                                      DSK_DRQ + DSK_BUSY)],
                         f.dat)
                ELSE LET g == [f EXCEPT !.bufptr = f.bufptr + 1]
                     IN IF f.bufptr < BufSize
                          THEN one(g, BufCell(f.buf, f.bufptr))
                          ELSE {[f |-> g, ret |-> b] : b \in StrayBytes}
              ELSE one(f, f.dat)
       [] port % 16 = 15 -> one(f, 16)
       [] OTHER -> one(f, 255)

\* disksys_write
disksys_write(f, port, data) ==
  CASE port % 16 = 0 -> disksys_do(f, data)
    [] port % 16 = 1 -> {[f |-> [f EXCEPT !.trk = data], crash |-> FALSE]}
    [] port % 16 = 2 -> {[f |-> [f EXCEPT !.sec = data], crash |-> FALSE]}
    [] port % 16 = 3 -> {[f |-> [f EXCEPT !.dat = data], crash |-> FALSE]}
    [] port % 16 = 15 ->
         {[f |-> [f EXCEPT !.disksys_light = (BitAnd(data, 6)) \div 2],
           crash |-> FALSE]}
    [] OTHER -> {[f |-> f, crash |-> FALSE]}

\* disksys_tick: the new rotational position and status byte
disksys_tick(t, m, light, dsk, s) ==
  LET t1 == IF t > 512 THEN ((t - 1) % 512) + 1 ELSE t
      d == DriveIndex(light)
      s1 == ClearBits(s, DSK_INDEX)
  IN [tick |-> t1,
      stat |-> IF m # 0 THEN s
               ELSE IF d < 2 /\ dsk[d] # 0 /\ t1 = 0
                 THEN BitOr(s1, DSK_INDEX)
                 ELSE s1]

\* sizes of the image files that are disk images
DiskSizes == {204800, 409600, 819200}

\* an insert that takes every file for a 5.25" single-sided image
disksys_insert_anysize(dsk, dtype, drive, size) ==
  IF drive \notin {0, 1} \/ dsk[drive] # 0
    THEN [disk |-> dsk, disktype |-> dtype, ret |-> -1]
    ELSE [disk |-> [dsk EXCEPT ![drive] = size],
          disktype |-> [dtype EXCEPT ![drive] = "DISK_525SS"],
          ret |-> 0]

\* disksys_insert of an existing file of the given size
disksys_insert(dsk, dtype, drive, size) ==
  IF drive \notin {0, 1} \/ dsk[drive] # 0
    THEN [disk |-> dsk, disktype |-> dtype, ret |-> -1]
    ELSE CASE size = 204800 ->
                [disk |-> [dsk EXCEPT ![drive] = size],
                 disktype |-> [dtype EXCEPT ![drive] = "DISK_525SS"],
                 ret |-> 0]
           [] size = 409600 ->
                [disk |-> [dsk EXCEPT ![drive] = size],
                 disktype |-> [dtype EXCEPT ![drive] = "DISK_525DS"],
                 ret |-> 0]
           [] size = 819200 ->
                [disk |-> [dsk EXCEPT ![drive] = size],
                 disktype |-> [dtype EXCEPT ![drive] = "DISK_35DS"],
                 ret |-> 0]
           [] OTHER ->
                [disk |-> [dsk EXCEPT ![drive] = 0],
                 disktype |-> dtype,
                 ret |-> -1]

\* disksys_eject
disksys_eject(dsk, dtype, drive) ==
  IF drive \in {0, 1} /\ dsk[drive] # 0
    THEN [disk |-> [dsk EXCEPT ![drive] = 0],
          disktype |-> [dtype EXCEPT ![drive] = "DISK_NONE"]]
    ELSE [disk |-> dsk, disktype |-> dtype]

(***************************************************************************)
(* The modem socket (src/modem.c)                                          *)
(***************************************************************************)

\* a poll that does not look at the connection status
modem_bytes_available_nostatus == modem_rx # <<>>

\* modem_bytes_available(): 0 without a connection (status is 1 exactly
\* when modem_init() returned 0, which is when gotmodem is set), else
\* whether select() finds the socket readable
modem_bytes_available == gotmodem /\ modem_rx # <<>>

\* modem_write(data): the byte is sent only over a connection
modem_write(data) == IF gotmodem THEN Append(modem_tx, data) ELSE modem_tx

(***************************************************************************)
(* The event loop of main(): loop test and throttle                        *)
(***************************************************************************)

\* a loop that never looks at the quit flag
LoopTest_never(flag) == TRUE

\* while (!death_flag)
LoopTest(flag) == flag = 0

\* control is inside an iteration and has z80_step() ahead of it: a
\* boundary has just been processed, or the loop test lets a new iteration
\* begin
InStep == running /\ (at = "step" \/ LoopTest(death_flag))

\* nanoseconds of wall-clock time one scanline is given
FIRE_TICK == 63492

\* nanoseconds in a second: tv_nsec runs over 0 .. NSEC-1
NSEC == 1000000000

\* throttle() of the POSIX build, with deadline nf and the clock reading
\* now.  n.tv_nsec takes next_fire - tv_nsec, which is negative once the
\* clock has passed next_fire.  The test next_fire > n.tv_nsec is made on
\* unsigned long long: a negative n.tv_nsec converts to 2^63 or more and
\* the test fails.
throttle(nf, now) ==
  LET n == nf - now
      nf1 == now + FIRE_TICK
  IN [next_fire |-> nf1,
      asked |-> n >= 0 /\ nf1 > n,
      dur |-> n]

(***************************************************************************)
(* Start-up and reset                                                      *)
(***************************************************************************)

\* z80_init: no request pending
z80_init == [int_pending |-> FALSE, int_data |-> 0]

\* PSG_reset: all registers 0
PSG_reset == [r \in 0..31 |-> 0]

\* vrEmuTms9918Reset: first byte of a register write expected, register 1
\* cleared
vdp_reset == [stage |-> 0, latch |-> 0, reg1 |-> 0]

\* an init_cpu() that queues no power-up byte
init_cpu_nokey(kbuf, w, regs) ==
  LET u == update_interrupts(0, 1, 1, 0, 0, 0, 0)
  IN [keyboard_buffer |-> kbuf,
      keyboard_buffer_write_ptr |-> w,
      psg_portb |-> u.psg_portb,
      psg_porta |-> 0,
      hccarint |-> 0,
      vdpint |-> 0,
      interrupts |-> u.interrupts,
      enc |-> u.enc,
      keybdint |-> 1,
      hccatint |-> 1,
      psg |-> PSG_writeReg(regs, 15, u.psg_portb),
      cpu |-> z80_gen_int(z80_init, u.state, u.data)]

\* an init_cpu() that leaves the keyboard line low
init_cpu_quiet(kbuf, w, regs) ==
  LET kb == keyboard_buffer_put(kbuf, w, 149)
      u == update_interrupts(0, 1, 0, 0, 0, 0, 0)
  IN [keyboard_buffer |-> kb.buf,
      keyboard_buffer_write_ptr |-> kb.w,
      psg_portb |-> u.psg_portb,
      psg_porta |-> 0,
      hccarint |-> 0,
      vdpint |-> 0,
      interrupts |-> u.interrupts,
      enc |-> u.enc,
      keybdint |-> 0,
      hccatint |-> 1,
      psg |-> PSG_writeReg(regs, 15, u.psg_portb),
      cpu |-> z80_gen_int(z80_init, u.state, u.data)]

\* an init_cpu() that enables the keyboard interrupt in the mask
init_cpu_masked(kbuf, w, regs) ==
  LET kb == keyboard_buffer_put(kbuf, w, 149)
      u == update_interrupts(0, 1, 1, 0, 0, 32, 0)
  IN [keyboard_buffer |-> kb.buf,
      keyboard_buffer_write_ptr |-> kb.w,
      psg_portb |-> u.psg_portb,
      psg_porta |-> 32,
      hccarint |-> 0,
      vdpint |-> 0,
      interrupts |-> u.interrupts,
      enc |-> u.enc,
      keybdint |-> 1,
      hccatint |-> 1,
      psg |-> PSG_writeReg(regs, 15, u.psg_portb),
      cpu |-> z80_gen_int(z80_init, u.state, u.data)]

\* an init_cpu() that leaves the transmit-ready line low
init_cpu_notx(kbuf, w, regs) ==
  LET kb == keyboard_buffer_put(kbuf, w, 149)
      u == update_interrupts(0, 0, 1, 0, 0, 0, 0)
  IN [keyboard_buffer |-> kb.buf,
      keyboard_buffer_write_ptr |-> kb.w,
      psg_portb |-> u.psg_portb,
      psg_porta |-> 0,
      hccarint |-> 0,
      vdpint |-> 0,
      interrupts |-> u.interrupts,
      enc |-> u.enc,
      keybdint |-> 1,
      hccatint |-> 0,
      psg |-> PSG_writeReg(regs, 15, u.psg_portb),
      cpu |-> z80_gen_int(z80_init, u.state, u.data)]

\* init_cpu() run on the keyboard ring (buf, w) and the PSG register file
init_cpu(kbuf, w, regs) ==
  LET kb == keyboard_buffer_put(kbuf, w, 149)
      u == update_interrupts(0, 1, 1, 0, 0, 0, 0)
  IN [keyboard_buffer |-> kb.buf,
      keyboard_buffer_write_ptr |-> kb.w,
      psg_portb |-> u.psg_portb,
      psg_porta |-> 0,
      hccarint |-> 0,
      vdpint |-> 0,
      interrupts |-> u.interrupts,
      enc |-> u.enc,
      keybdint |-> 1,
      hccatint |-> 1,
      psg |-> PSG_writeReg(regs, 15, u.psg_portb),
      cpu |-> z80_gen_int(z80_init, u.state, u.data)]

\* the memory after the ROM file has been loaded
InitMem ==
  /\ romsize \in {4096, 8192}
  /\ ROM = [a \in RomAddrs |-> IF a < romsize THEN RomImage(a) ELSE 0]
  /\ RAM = [a \in Addrs |-> 0]

\* the peripherals as main() leaves them before the event loop
InitDev ==
  /\ gotmodem \in BOOLEAN
  /\ modem_rx = <<>>
  /\ modem_tx = <<>>
  /\ samples = 0
  /\ vdp = vdp_reset
  /\ lpt \in BOOLEAN
  /\ lpt_data = 0
  /\ lpt_out = <<>>

\* disksys_init() on the zeroed statics of disk.c: both drives empty
InitDisk ==
  /\ disk = [d \in {0, 1} |-> 0]
  /\ disktype = [d \in {0, 1} |-> "DISK_NONE"]
  /\ trk = 0 /\ sec = 0 /\ dat = 0 /\ stat = 0
  /\ disksys_light = 0
  /\ tick = 0
  /\ mode = 0
  /\ buf = [file |-> 0, off |-> 0, patch |-> <<>>]
  /\ bufptr = 0
  /\ buflen = 0
  /\ xfer = "none"
  /\ ncmds = 0
  /\ nreads = 0

\* scanline < 240, the test in front of render_scanline(scanline)
Visible(s) == s < 240

\* the scanlines rendered by the boundaries that brought the index from 0
\* to s within one frame
RenderedBy(s) == [i \in 1..(IF Visible(s) THEN s ELSE 239) |-> i]

\* the loop as main() enters it: at the loop test, the quit flag clear, no
\* frame presented yet (the scanline index has been set before)
InitLoop ==
  /\ frames = 0
  /\ death_flag = 0
  /\ at = "top"
  /\ rendered = RenderedBy(scanline)

\* next_fire = timespec.tv_nsec + FIRE_TICK with the clock reading c; no
\* sleep asked for yet
InitClock(c) ==
  /\ clock = c
  /\ next_fire = c + FIRE_TICK
  /\ nap = [asked |-> FALSE, dur |-> 0, due |-> 0]

\* the event loop's counters as main() sets them, on a host that reaches
\* every boundary exactly one scanline time after the one before
InitSched ==
  /\ scanline = 0
  /\ next_watchdog = 0
  /\ dog = [before |-> 0, seen |-> <<>>]
  /\ nlines = 0
  /\ InitLoop
  /\ pace = "steady"
  /\ InitClock(0)

\* the interrupt network and the keyboard ring as init_cpu() leaves them
InitCpu ==
  LET i == init_cpu(<<>>, 0, PSG_reset)
  IN /\ keyboard_buffer = i.keyboard_buffer
     /\ keyboard_buffer_write_ptr = i.keyboard_buffer_write_ptr
     /\ keyboard_buffer_read_ptr = 0
     /\ psg_portb = i.psg_portb
     /\ psg_porta = i.psg_porta
     /\ hccarint = i.hccarint
     /\ vdpint = i.vdpint
     /\ interrupts = i.interrupts
     /\ enc = i.enc
     /\ keybdint = i.keybdint
     /\ hccatint = i.hccatint
     /\ psg = i.psg
     /\ cpu = i.cpu
     /\ fifo = <<149>>

\* the state in which main() enters its event loop
Init ==
  /\ InitMem
  /\ InitDev
  /\ InitDisk
  /\ InitSched
  /\ InitCpu
  /\ ctrlreg = 58
  /\ psg_reg_address = 0
  /\ running = TRUE
  /\ nputs = 0
  /\ last = Op("init", 0, 0, 0, TRUE)

(***************************************************************************)
(* CPU memory accesses                                                     *)
(***************************************************************************)

MemRead(addr) ==
  /\ InStep
  /\ at' = "top"
  /\ last' = Op("mem_read", addr, 0, mem_read(addr), FALSE)
  /\ UNCHANGED <<memVars, diskVars, schedVars, ctrlreg, psg_reg_address, intVars, kbdVars,
                 devVars, running, nputs, fifo>>

MemWrite(addr, val) ==
  /\ InStep
  /\ at' = "top"
  /\ RAM' = mem_write(addr, val)
  /\ last' = Op("mem_write", addr, val, 0, FALSE)
  /\ UNCHANGED <<ROM, romsize, diskVars, schedVars, ctrlreg, psg_reg_address, intVars, kbdVars,
                 devVars, running, nputs, fifo>>

(***************************************************************************)
(* CPU port accesses (the ports outside the disk controller's 0xC0..0xCF)  *)
(***************************************************************************)

\* bytes the video chip hands back on a data or status read
VdpBytes == {0, 128}

\* vrEmuTms9918WriteAddr: the first byte is latched, the second one selects
\* a register (bit 7 set) or a memory address
vdp_write_addr(v, val) ==
  IF v.stage = 0
    THEN [v EXCEPT !.stage = 1, !.latch = val]
    ELSE IF Bit(val, 7) = 1 /\ val % 8 = 1
      THEN [v EXCEPT !.stage = 0, !.reg1 = v.latch]
      ELSE [v EXCEPT !.stage = 0]

\* a fatal_diag that shows the diagnostic and returns
fatal_diag_warn(name, port, val) ==
  /\ last' = Op(name, port, val, 0, FALSE)
  /\ UNCHANGED <<memVars, diskVars, schedVars, ctrlreg, psg_reg_address, intVars, kbdVars,
                 devVars, running, nputs, fifo>>

\* fatal_diag: a diagnostic, then exit()
fatal_diag(name, port, val) ==
  /\ running' = FALSE
  /\ last' = Op(name, port, val, 0, FALSE)
  /\ UNCHANGED <<memVars, diskVars, schedVars, ctrlreg, psg_reg_address, intVars, kbdVars,
                 devVars, nputs, fifo>>

port_read(port) ==
  CASE port = 64 ->
         /\ last' = Op("port_read", port, 0,
                       PSG_readReg(psg, psg_reg_address), FALSE)
         /\ UNCHANGED <<memVars, diskVars, schedVars, ctrlreg, psg_reg_address, intVars, kbdVars,
                        devVars, running, nputs, fifo>>
    [] port = 65 -> fatal_diag("fatal_read", port, 0)
    [] port = 128 ->
         IF gotmodem /\ modem_bytes_available
           THEN /\ modem_rx' = Tail(modem_rx)
                /\ hccarint' = 0
                /\ Recompute(0, hccatint, keybdint, vdpint, psg_porta, psg)
                /\ last' = Op("port_read", port, 0, Head(modem_rx), TRUE)
                /\ UNCHANGED <<memVars, diskVars, schedVars, ctrlreg, psg_reg_address, psg_porta,
                               hccatint, keybdint, vdpint, kbdVars, gotmodem, modem_tx, samples,
                               vdp, lpt, lpt_data, lpt_out, running, nputs,
                               fifo>>
           ELSE /\ last' = Op("port_read", port, 0, 0, FALSE)
                /\ UNCHANGED <<memVars, diskVars, schedVars, ctrlreg, psg_reg_address, intVars,
                               kbdVars, devVars, running, nputs, fifo>>
    [] port = 144 ->
         LET g == keyboard_buffer_get(keyboard_buffer,
                                      keyboard_buffer_read_ptr,
                                      keyboard_buffer_write_ptr)
         IN /\ keyboard_buffer_read_ptr' = g.r
            /\ keybdint' = 0
            /\ Recompute(hccarint, hccatint, 0, vdpint, psg_porta, psg)
            /\ last' = Op("port_read", port, g.ret,
                          IF g.ret = 255 THEN 0 ELSE g.ret, TRUE)
            /\ fifo' = IF fifo # <<>> THEN Tail(fifo) ELSE fifo
            /\ UNCHANGED <<memVars, diskVars, schedVars, ctrlreg, psg_reg_address, psg_porta,
                           hccarint, hccatint, vdpint, keyboard_buffer,
                           keyboard_buffer_write_ptr, devVars, running,
                           nputs>>
    [] port = 145 ->
         /\ last' = Op("port_read", port, 0,
                       IF keyboard_buffer_empty(keyboard_buffer_read_ptr,
                                                keyboard_buffer_write_ptr) # 0
                         THEN 0 ELSE 255, FALSE)
         /\ UNCHANGED <<memVars, diskVars, schedVars, ctrlreg, psg_reg_address, intVars, kbdVars,
                        devVars, running, nputs, fifo>>
    [] port = 160 ->
         /\ \E b \in VdpBytes : last' = Op("port_read", port, 0, b, FALSE)
         /\ vdp' = [vdp EXCEPT !.stage = 0]
         /\ UNCHANGED <<memVars, diskVars, schedVars, ctrlreg, psg_reg_address, intVars, kbdVars,
                        gotmodem, modem_tx, samples, modem_rx, lpt, lpt_data, lpt_out, running,
                        nputs, fifo>>
    [] port = 161 ->
         /\ \E b \in VdpBytes : last' = Op("port_read", port, 0, b, TRUE)
         /\ vdp' = [vdp EXCEPT !.stage = 0]
         /\ vdpint' = 0
         /\ Recompute(hccarint, hccatint, keybdint, 0, psg_porta, psg)
         /\ UNCHANGED <<memVars, diskVars, schedVars, ctrlreg, psg_reg_address, psg_porta,
                        hccarint, hccatint, keybdint, kbdVars, gotmodem, modem_tx, samples,
                        modem_rx, lpt, lpt_data, lpt_out, running, nputs,
                        fifo>>
    [] OTHER ->
         /\ last' = Op("port_read", port, 0, 0, FALSE)
         /\ UNCHANGED <<memVars, diskVars, schedVars, ctrlreg, psg_reg_address, intVars, kbdVars,
                        devVars, running, nputs, fifo>>

\* a strobe that fires on the level of bit 2
Strobe_level(val, ctrl, open) == Bit(val, 2) = 1 /\ open

\* (val & 0x04) && (!(ctrlreg & 0x04)) && (lpt)
Strobe(val, ctrl, open) == Bit(val, 2) = 1 /\ Bit(ctrl, 2) = 0 /\ open

port_write(port, val) ==
  CASE port = 0 ->
         LET strobe == Strobe(val, ctrlreg, lpt)
         IN /\ strobe => Len(lpt_out) < MaxLptOut
            /\ lpt_out' = IF strobe THEN Append(lpt_out, lpt_data)
                          ELSE lpt_out
            /\ ctrlreg' = val
            /\ last' = Op("port_write", port, val, 0, FALSE)
            /\ UNCHANGED <<memVars, diskVars, schedVars, psg_reg_address, intVars, kbdVars,
                           gotmodem, modem_tx, samples, modem_rx, vdp, lpt, lpt_data, running,
                           nputs, fifo>>
    [] port = 64 ->
         IF psg_reg_address = 14 /\ psg_porta # val
           THEN LET u == update_interrupts(hccarint, hccatint, keybdint,
                                           vdpint, interrupts, val,
                                           psg_portb)
                IN /\ psg_porta' = val
                   /\ interrupts' = u.interrupts
                   /\ enc' = u.enc
                   /\ psg_portb' = u.psg_portb
                   /\ cpu' = z80_gen_int(cpu, u.state, u.data)
                   /\ psg' = PSG_writeReg(PSG_writeReg(psg, 15, u.psg_portb),
                                          psg_reg_address, val)
                   /\ last' = Op("port_write", port, val, 0, TRUE)
                   /\ UNCHANGED <<memVars, diskVars, schedVars, ctrlreg, psg_reg_address,
                                  hccarint, hccatint, keybdint, vdpint,
                                  kbdVars, devVars, running, nputs, fifo>>
           ELSE /\ psg' = PSG_writeReg(psg, psg_reg_address, val)
                /\ last' = Op("port_write", port, val, 0, FALSE)
                /\ UNCHANGED <<memVars, diskVars, schedVars, ctrlreg, psg_reg_address, psg_porta,
                               psg_portb, hccarint, hccatint, keybdint,
                               vdpint, interrupts, cpu, enc, kbdVars, devVars,
                               running, nputs, fifo>>
    [] port = 65 ->
         IF val > 31
           THEN fatal_diag("fatal_write", port, val)
           ELSE /\ psg_reg_address' = val
                /\ last' = Op("port_write", port, val, 0, FALSE)
                /\ UNCHANGED <<memVars, diskVars, schedVars, ctrlreg, intVars, kbdVars, devVars,
                               running, nputs, fifo>>
    [] port = 161 ->
         /\ vdp' = vdp_write_addr(vdp, val)
         /\ last' = Op("port_write", port, val, 0, FALSE)
         /\ UNCHANGED <<memVars, diskVars, schedVars, ctrlreg, psg_reg_address, intVars, kbdVars,
                        gotmodem, modem_tx, samples, modem_rx, lpt, lpt_data, lpt_out, running,
                        nputs, fifo>>
    [] port = 160 ->
         /\ vdp' = [vdp EXCEPT !.stage = 0]
         /\ last' = Op("port_write", port, val, 0, FALSE)
         /\ UNCHANGED <<memVars, diskVars, schedVars, ctrlreg, psg_reg_address, intVars, kbdVars,
                        gotmodem, modem_tx, samples, modem_rx, lpt, lpt_data, lpt_out, running,
                        nputs, fifo>>
    [] port = 176 ->
         /\ lpt_data' = IF lpt THEN val ELSE lpt_data
         /\ last' = Op("port_write", port, val, 0, FALSE)
         /\ UNCHANGED <<memVars, diskVars, schedVars, ctrlreg, psg_reg_address, intVars, kbdVars,
                        gotmodem, modem_tx, samples, modem_rx, vdp, lpt, lpt_out, running,
                        nputs, fifo>>
    [] port = 128 ->
         /\ gotmodem => Len(modem_tx) < MaxTx
         /\ modem_tx' = modem_write(val)
         /\ last' = Op("port_write", port, val, 0, FALSE)
         /\ UNCHANGED <<memVars, diskVars, schedVars, ctrlreg, psg_reg_address, intVars, kbdVars,
                        gotmodem, samples, modem_rx, vdp, lpt, lpt_data, lpt_out, running,
                        nputs, fifo>>
    [] OTHER ->
         /\ last' = Op("port_write", port, val, 0, FALSE)
         /\ UNCHANGED <<memVars, diskVars, schedVars, ctrlreg, psg_reg_address, intVars, kbdVars,
                        devVars, running, nputs, fifo>>


(***************************************************************************)
(* Host and CPU core events                                                *)
(***************************************************************************)

\* an audio callback that also stores into PSG register 15
audio_callback_regs(len) ==
  /\ running
  /\ UNCHANGED at
  /\ samples' = samples + len \div 2
  /\ psg' = PSG_writeReg(psg, 15, 0)
  /\ last' = Op("audio_callback", len, 0, 0, FALSE)
  /\ UNCHANGED <<memVars, diskVars, schedVars, ctrlreg, psg_reg_address,
                 psg_porta, psg_portb, hccarint, hccatint, keybdint, vdpint,
                 interrupts, cpu, enc, kbdVars, gotmodem, modem_tx, modem_rx,
                 vdp, lpt, lpt_data, lpt_out, running, nputs, fifo>>

\* audio_callback(), on the audio thread: one PSG_calc() for every two bytes
\* of the stream buffer
audio_callback(len) ==
  /\ running
  /\ UNCHANGED at
  /\ samples' = samples + len \div 2
  /\ last' = Op("audio_callback", len, 0, 0, FALSE)
  /\ UNCHANGED <<memVars, diskVars, schedVars, ctrlreg, psg_reg_address,
                 intVars, kbdVars, gotmodem, modem_tx, modem_rx,
                 vdp, lpt, lpt_data, lpt_out, running, nputs, fifo>>

\* a byte becomes readable on the modem socket
ModemArrive(b) ==
  /\ running
  /\ UNCHANGED at
  /\ gotmodem
  /\ modem_rx = <<>>
  /\ modem_rx' = <<b>>
  /\ last' = Op("modem_arrive", 0, b, 0, FALSE)
  /\ UNCHANGED <<memVars, diskVars, schedVars, ctrlreg, psg_reg_address, intVars, kbdVars,
                 gotmodem, modem_tx, samples, vdp, lpt, lpt_data, lpt_out, running, nputs, fifo>>

\* the host input handler queues a key code
HostKey(code) ==
  /\ running
  /\ UNCHANGED at
  /\ LET kb == keyboard_buffer_put(keyboard_buffer,
                                   keyboard_buffer_write_ptr, code)
     IN /\ keyboard_buffer' = kb.buf
        /\ keyboard_buffer_write_ptr' = kb.w
  /\ nputs' = nputs + 1
  /\ fifo' = Append(fifo, code)
  /\ last' = Op("put", 0, code, 0, FALSE)
  /\ UNCHANGED <<memVars, diskVars, schedVars, ctrlreg, psg_reg_address, intVars,
                 keyboard_buffer_read_ptr, devVars, running>>

\* reinit_cpu(): the reset key
Reset ==
  /\ running
  /\ UNCHANGED at
  /\ LET i == init_cpu(keyboard_buffer, keyboard_buffer_write_ptr, psg)
     IN /\ keyboard_buffer' = i.keyboard_buffer
        /\ keyboard_buffer_write_ptr' = i.keyboard_buffer_write_ptr
        /\ psg_portb' = i.psg_portb
        /\ psg_porta' = i.psg_porta
        /\ hccarint' = i.hccarint
        /\ vdpint' = i.vdpint
        /\ interrupts' = i.interrupts
        /\ enc' = i.enc
        /\ keybdint' = i.keybdint
        /\ hccatint' = i.hccatint
        /\ psg' = i.psg
        /\ cpu' = i.cpu
  /\ nputs' = nputs + 1
  /\ fifo' = Append(fifo, 149)
  /\ last' = Op("reset", 0, 149, 0, TRUE)
  /\ UNCHANGED <<memVars, diskVars, schedVars, ctrlreg, psg_reg_address,
                 keyboard_buffer_read_ptr, devVars, running>>

\* the CPU core takes the pending maskable interrupt: the acknowledge cycle
\* reads int_data and consumes the request
CpuAck ==
  /\ running
  /\ UNCHANGED at
  /\ cpu.int_pending
  /\ cpu' = [cpu EXCEPT !.int_pending = FALSE]
  /\ last' = Op("int_ack", 0, 0, cpu.int_data, FALSE)
  /\ UNCHANGED <<memVars, diskVars, schedVars, ctrlreg, psg, psg_reg_address, psg_porta,
                 psg_portb, hccarint, hccatint, keybdint, vdpint, interrupts,
                 enc, kbdVars, devVars, running, nputs, fifo>>

\* update_interrupts() called on its own
IntRecompute ==
  /\ running
  /\ UNCHANGED at
  /\ Recompute(hccarint, hccatint, keybdint, vdpint, psg_porta, psg)
  /\ last' = Op("update_interrupts", 0, 0, 0, TRUE)
  /\ UNCHANGED <<memVars, diskVars, schedVars, ctrlreg, psg_reg_address, psg_porta, hccarint,
                 hccatint, keybdint, vdpint, kbdVars, devVars, running,
                 nputs, fifo>>

(***************************************************************************)
(* Disk controller ports 0xC0..0xCF, and mounting                          *)
(***************************************************************************)

\* the controller's statics take the values of record f
SetFdc(f) ==
  /\ disk' = f.disk
  /\ trk' = f.trk
  /\ sec' = f.sec
  /\ dat' = f.dat
  /\ stat' = f.stat
  /\ disksys_light' = f.disksys_light
  /\ mode' = f.mode
  /\ buf' = f.buf
  /\ bufptr' = f.bufptr
  /\ buflen' = f.buflen

\* port_read of a port with top nibble 0xC
DiskPortRead(port) ==
  /\ bufptr < BufSize + MaxOverrun
  /\ \E o \in disksys_read(Fdc, port) :
       /\ SetFdc(o.f)
       /\ last' = Op("disk_read", port, 0, o.ret, FALSE)
  /\ nreads' = IF port % 16 = 3 THEN nreads + 1 ELSE nreads
  /\ UNCHANGED <<memVars, ctrlreg, psg_reg_address, intVars, kbdVars,
                 devVars, schedVars, running, nputs, fifo, disktype, tick,
                 xfer, ncmds>>

\* the transfer the write of val to the port begins, by the controller's
\* documentation: READ-SECTOR with a drive selected that holds an image and
\* the sector register in 1..5, READ-STATUS, or the out-of-band command
Begins(port, val) ==
  IF port % 16 # 0 THEN "none"
  ELSE CASE val = 136 ->
              IF /\ disksys_light \in {1, 2}
                 /\ disk[disksys_light - 1] # 0
                 /\ sec \in 1..5
                THEN "sector" ELSE "none"
         [] val = 192 -> "status"
         [] val = 224 -> "oob"
         [] OTHER -> "none"

\* port_write of a port with top nibble 0xC
DiskPortWrite(port, val) ==
  /\ \E o \in disksys_write(Fdc, port, val) :
       /\ SetFdc(o.f)
       /\ running' = ~o.crash
  /\ last' = Op("disk_write", port, val, 0, FALSE)
  /\ ncmds' = ncmds + 1
  /\ nreads' = 0
  /\ xfer' = Begins(port, val)
  /\ UNCHANGED <<memVars, ctrlreg, psg_reg_address, intVars, kbdVars,
                 devVars, schedVars, nputs, fifo, disktype, tick>>

\* disksys_insert(drive, filename) for a file of the given size
DiskInsert(drive, size) ==
  /\ running
  /\ UNCHANGED at
  /\ LET r == disksys_insert(disk, disktype, drive, size)
     IN /\ disk' = r.disk
        /\ disktype' = r.disktype
        /\ last' = Op("insert", drive, size, r.ret, FALSE)
  /\ UNCHANGED <<memVars, ctrlreg, psg_reg_address, intVars, kbdVars,
                 devVars, schedVars, running, nputs, fifo, trk, sec, dat,
                 stat, disksys_light, tick, mode, buf, bufptr, buflen,
                 xfer, ncmds, nreads>>

\* disksys_eject(drive)
DiskEject(drive) ==
  /\ running
  /\ UNCHANGED at
  /\ LET r == disksys_eject(disk, disktype, drive)
     IN /\ disk' = r.disk
        /\ disktype' = r.disktype
  /\ last' = Op("eject", drive, 0, 0, FALSE)
  /\ UNCHANGED <<memVars, ctrlreg, psg_reg_address, intVars, kbdVars,
                 devVars, schedVars, running, nputs, fifo, trk, sec, dat,
                 stat, disksys_light, tick, mode, buf, bufptr, buflen,
                 xfer, ncmds, nreads>>

\* the bus callbacks: ports with top nibble 0xC belong to the disk
\* controller
PortRead(port) ==
  /\ InStep
  /\ at' = "top"
  /\ IF port \div 16 = 12 THEN DiskPortRead(port) ELSE port_read(port)

PortWrite(port, val) ==
  /\ InStep
  /\ at' = "top"
  /\ IF port \div 16 = 12 THEN DiskPortWrite(port, val)
     ELSE port_write(port, val)

(***************************************************************************)
(* The scanline boundary of the event loop                                 *)
(***************************************************************************)

\* boundaries with an empty queue after which the watchdog byte is queued
dog_speed == 58000

\* the last scanline index of a frame
LastLine == 261

\* the interrupt network as one record
Net ==
  [hccarint |-> hccarint, hccatint |-> hccatint, keybdint |-> keybdint,
   vdpint |-> vdpint, interrupts |-> interrupts, enc |-> enc,
   psg_porta |-> psg_porta, psg_portb |-> psg_portb, psg |-> psg,
   cpu |-> cpu]

\* update_interrupts() on network n
Upd(n) ==
  LET u == update_interrupts(n.hccarint, n.hccatint, n.keybdint, n.vdpint,
                             n.interrupts, n.psg_porta, n.psg_portb)
  IN [n EXCEPT !.interrupts = u.interrupts,
               !.enc = u.enc,
               !.psg_portb = u.psg_portb,
               !.psg = PSG_writeReg(n.psg, 15, u.psg_portb),
               !.cpu = z80_gen_int(n.cpu, u.state, u.data)]

\* a boundary that raises the keyboard line only for an empty queue
KbdLineDue_empty(r, w, kb) == keyboard_buffer_empty(r, w) # 0 /\ kb = 0

\* !keyboard_buffer_empty() && !keybdint
KbdLineDue(r, w, kb) == keyboard_buffer_empty(r, w) = 0 /\ kb = 0

\* a watchdog that also counts the boundaries with bytes queued
watchdog_always(r, kb, count) ==
  IF count + 1 >= dog_speed
    THEN [next_watchdog |-> 0,
          kb |-> keyboard_buffer_put(kb.buf, kb.w, 148)]
    ELSE [next_watchdog |-> count + 1, kb |-> kb]

\* the watchdog check on read cursor r, ring kb = [buf, w] and counter
\* count: the new counter and the ring
watchdog(r, kb, count) ==
  IF keyboard_buffer_empty(r, kb.w) # 0
    THEN IF count + 1 >= dog_speed
      THEN [next_watchdog |-> 0,
            kb |-> keyboard_buffer_put(kb.buf, kb.w, 148)]
      ELSE [next_watchdog |-> count + 1, kb |-> kb]
    ELSE [next_watchdog |-> 0, kb |-> kb]

\* what keyboard_poll() finds at a boundary: nothing, a key, the reset key
\* (F3), a quit request (F10, Alt-F4, the window closed)
HostEvents == {"none", "key", "reset", "quit"}

\* the events as numbers, for the record of the last operation
EventCode(ev) ==
  CASE ev = "key" -> 1
    [] ev = "reset" -> 2
    [] ev = "quit" -> 3
    [] OTHER -> 0

\* nanoseconds that pass between two readings of the host clock: always
\* one scanline time on a steady host; otherwise less, exactly that, more,
\* or most of a second
Elapse(p) ==
  IF p = "steady" THEN {FIRE_TICK}
  ELSE {20000, FIRE_TICK, 100000, 960000000}

\* nanoseconds the last nanosleep() took at least: the time asked for
Slept(np) == IF np.asked THEN np.dur ELSE 0

\* a frame that ends one scanline early
FrameEnd_early(s) == s >= LastLine

\* scanline > 261
FrameEnd(s) == s > LastLine

\* a frame end that raises the video line whatever register 1 holds
VdpLineDue_always(reg1, vd) == vd = 0

\* vrEmuTms9918RegValue(vdp, TMS_REG_1) & 0x20, and vdpint == 0
VdpLineDue(reg1, vd) == Bit(reg1, 5) = 1 /\ vd = 0

\* the byte a key event queues
KeyByte == 65

\* keyboard_poll() with event ev on network n and ring kb
keyboard_poll(ev, n, kb) ==
  CASE ev = "key" ->
         [net |-> n, kb |-> keyboard_buffer_put(kb.buf, kb.w, KeyByte),
          put |-> <<KeyByte>>, rearm |-> FALSE, quit |-> FALSE]
    [] ev = "reset" ->
         LET i == init_cpu(kb.buf, kb.w, n.psg)
         IN [net |-> [hccarint |-> i.hccarint, hccatint |-> i.hccatint,
                      keybdint |-> i.keybdint, vdpint |-> i.vdpint,
                      interrupts |-> i.interrupts, enc |-> i.enc,
                      psg_porta |-> i.psg_porta, psg_portb |-> i.psg_portb,
                      psg |-> i.psg, cpu |-> i.cpu],
             kb |-> [buf |-> i.keyboard_buffer,
                     w |-> i.keyboard_buffer_write_ptr],
             put |-> <<149>>, rearm |-> TRUE, quit |-> FALSE]
    [] ev = "quit" ->
         [net |-> n, kb |-> kb, put |-> <<>>, rearm |-> FALSE, quit |-> TRUE]
    [] OTHER ->
         [net |-> n, kb |-> kb, put |-> <<>>, rearm |-> FALSE, quit |-> FALSE]

\* One pass through the body of `if (cpu.cyc > next)` in main(), in an
\* iteration the loop test has let begin, with keyboard_poll() finding event
\* ev; z80_step() of the same iteration follows.  Each intermediate value is
\* bound once, in the order the code computes it.  The F3 handler reads the
\* clock and re-arms next_fire before throttle() reads the clock again, at
\* the same instant in this model.
Scanline(ev) ==
  /\ running
  /\ at = "top"
  /\ LoopTest(death_flag)
  /\ \E t \in {disksys_tick(tick, mode, disksys_light, disk, stat)},
        n1 \in {IF modem_bytes_available
                  THEN Upd([Net EXCEPT !.hccarint = 1])
                  ELSE Net},
        e \in {x \in Elapse(pace) : x >= Slept(nap)} :
     \E n2 \in {IF KbdLineDue(keyboard_buffer_read_ptr,
                              keyboard_buffer_write_ptr, n1.keybdint)
                  THEN Upd([n1 EXCEPT !.keybdint = 1])
                  ELSE n1},
        now \in {(clock + e) % NSEC} :
     \E k \in {keyboard_poll(ev, n2, [buf |-> keyboard_buffer,
                                      w |-> keyboard_buffer_write_ptr])} :
     \E th \in {throttle(IF k.rearm THEN now + FIRE_TICK ELSE next_fire,
                          now)},
        wd \in {watchdog(keyboard_buffer_read_ptr, k.kb, next_watchdog)},
        wrap \in {FrameEnd(scanline + 1)} :
     \E n3 \in {IF wrap /\ VdpLineDue(vdp.reg1, k.net.vdpint)
                  THEN Upd([k.net EXCEPT !.vdpint = 1])
                  ELSE k.net},
        sawEmpty \in {keyboard_buffer_read_ptr = k.kb.w},
        dogPut \in {wd.kb.w # k.kb.w} :
        /\ tick' = t.tick
        /\ stat' = t.stat
        /\ keyboard_buffer' = wd.kb.buf
        /\ keyboard_buffer_write_ptr' = wd.kb.w
        /\ next_watchdog' = wd.next_watchdog
        /\ dog' = [dog EXCEPT !.seen = Append(dog.seen,
                                              [empty |-> sawEmpty,
                                               put |-> dogPut])]
        /\ scanline' = IF wrap THEN 0 ELSE scanline + 1
        /\ frames' = IF wrap THEN frames + 1 ELSE frames
        /\ rendered' = IF wrap THEN <<>>
                       ELSE IF Visible(scanline + 1)
                         THEN Append(rendered, scanline + 1)
                         ELSE rendered
        /\ death_flag' = IF k.quit THEN 1 ELSE death_flag
        /\ clock' = now
        /\ next_fire' = th.next_fire
        /\ nap' = [asked |-> th.asked, dur |-> th.dur,
                   due |-> IF k.rearm THEN FIRE_TICK ELSE FIRE_TICK - e]
        /\ hccarint' = n3.hccarint
        /\ hccatint' = n3.hccatint
        /\ keybdint' = n3.keybdint
        /\ vdpint' = n3.vdpint
        /\ interrupts' = n3.interrupts
        /\ enc' = n3.enc
        /\ psg_porta' = n3.psg_porta
        /\ psg_portb' = n3.psg_portb
        /\ psg' = n3.psg
        /\ cpu' = n3.cpu
        /\ fifo' = fifo \o k.put \o (IF dogPut THEN <<148>> ELSE <<>>)
        /\ nputs' = nputs + Len(k.put) + (IF dogPut THEN 1 ELSE 0)
        /\ last' = Op("scanline", EventCode(ev), 0, 0,
                      n2 # n1 \/ n1 # Net \/ ev = "reset" \/ n3 # k.net)
  /\ nlines' = nlines + 1
  /\ at' = "step"
  /\ UNCHANGED <<memVars, ctrlreg, psg_reg_address, keyboard_buffer_read_ptr,
                 devVars, running, pace, disk, disktype, trk, sec, dat,
                 disksys_light, mode, buf, bufptr, buflen, xfer, ncmds,
                 nreads>>

\* the loop test finds the quit flag set: main() leaves the loop and shuts
\* the emulation down
Shutdown ==
  /\ running
  /\ at = "top"
  /\ ~LoopTest(death_flag)
  /\ running' = FALSE
  /\ last' = Op("shutdown", 0, 0, 0, FALSE)
  /\ UNCHANGED <<memVars, diskVars, schedVars, at, ctrlreg, psg_reg_address,
                 intVars, kbdVars, devVars, nputs, fifo>>

\* z80_step() of an instruction whose only bus access is its opcode fetch
Fetch == MemRead(0)

(***************************************************************************)
(* The CPU on the bus: memory and port accesses in any order               *)
(***************************************************************************)

\* addresses the CPU reads and writes, and the byte it writes
WAddrs == {0, 8192}
WVals == {165}

\* ports the CPU reads: unmapped, PSG data, PSG latch, keyboard data,
\* video status
RPorts == {16, 64, 65, 144, 161}

\* port writes: control register, PSG data and latch, parallel data
WPortVals == {<<0, 1>>, <<0, 62>>, <<64, 32>>, <<65, 14>>, <<65, 32>>,
              <<176, 65>>}

\* started with a printer file and without a modem connection
InitBus == Init /\ lpt /\ ~gotmodem

Next ==
  \/ \E a \in WAddrs : MemRead(a)
  \/ \E a \in WAddrs, v \in WVals : MemWrite(a, v)
  \/ \E p \in RPorts : PortRead(p)
  \/ \E pv \in WPortVals : PortWrite(pv[1], pv[2])

Spec == InitBus /\ [][Next]_vars

(***************************************************************************)
(* Memory reads under every control-register value                         *)
(***************************************************************************)

\* any control-register value, and RAM as earlier writes left it
InitMemRead ==
  /\ romsize \in {4096, 8192}
  /\ ROM = [a \in RomAddrs |-> IF a < romsize THEN RomImage(a) ELSE 0]
  /\ RAM = [a \in Addrs |-> RamImage(a)]
  /\ ctrlreg \in Byte
  /\ InitDev /\ lpt /\ ~gotmodem
  /\ InitDisk
  /\ InitSched
  /\ InitCpu
  /\ psg_reg_address = 0
  /\ running = TRUE
  /\ nputs = 0
  /\ last = Op("init", 0, 0, 0, TRUE)

NextMemRead == \E a \in Addrs : MemRead(a)

SpecMemRead == InitMemRead /\ [][NextMemRead]_vars

(***************************************************************************)
(* The interrupt network at a call of update_interrupts()                  *)
(***************************************************************************)

\* what earlier recomputes and CPU accesses left behind: the composite word,
\* the status byte, PSG register 15 and the CPU's request.  The first is the
\* state after init_cpu, the second has a request pending, in the third the
\* CPU has taken the request and has written 0xA5 to PSG register 15.
Leftovers ==
  {[interrupts |-> 96, psg_portb |-> 14, reg15 |-> 14,
    cpu |-> [int_pending |-> FALSE, int_data |-> 14],
    enc |-> [GS |-> 1, Q0 |-> 1, Q1 |-> 1, Q2 |-> 1, EO |-> 0]],
   [interrupts |-> 240, psg_portb |-> 1, reg15 |-> 1,
    cpu |-> [int_pending |-> TRUE, int_data |-> 0],
    enc |-> [GS |-> 0, Q0 |-> 0, Q1 |-> 0, Q2 |-> 0, EO |-> 1]],
   [interrupts |-> 80, psg_portb |-> 3, reg15 |-> 165,
    cpu |-> [int_pending |-> FALSE, int_data |-> 2],
    enc |-> [GS |-> 0, Q0 |-> 1, Q1 |-> 0, Q2 |-> 0, EO |-> 1]]}

\* every level of the four lines and every enable mask
InitInt ==
  /\ InitMem /\ romsize = 8192
  /\ InitDev /\ lpt /\ ~gotmodem
  /\ InitDisk
  /\ InitSched
  /\ keyboard_buffer = <<>>
  /\ keyboard_buffer_write_ptr = 0
  /\ keyboard_buffer_read_ptr = 0
  /\ fifo = <<>>
  /\ hccarint \in {0, 1}
  /\ hccatint \in {0, 1}
  /\ keybdint \in {0, 1}
  /\ vdpint \in {0, 1}
  /\ psg_porta \in Byte
  /\ \E l \in Leftovers :
       /\ interrupts = l.interrupts
       /\ psg_portb = l.psg_portb
       /\ psg = [PSG_reset EXCEPT ![14] = psg_porta, ![15] = l.reg15]
       /\ cpu = l.cpu
       /\ enc = l.enc
  /\ ctrlreg = 58
  /\ psg_reg_address = 0
  /\ running = TRUE
  /\ nputs = 0
  /\ last = Op("init", 0, 0, 0, FALSE)

NextInt ==
  \/ IntRecompute
  \/ CpuAck

SpecInt == InitInt /\ [][NextInt]_vars

(***************************************************************************)
(* The keyboard ring buffer                                                *)
(***************************************************************************)

\* slots of the ring
RingSize == 256

\* key codes the host input handler queues
KeyCodes == {65, 224}

\* the state after a cold start, s-1 key bytes 0x41 and s reads of port
\* 0x90: the ring is empty with both cursors at s
IdleAt(s) ==
  /\ InitMem /\ romsize = 8192
  /\ InitDev /\ lpt /\ ~gotmodem
  /\ keyboard_buffer =
       [i \in 0..(s - 1) |-> IF i = 0 THEN ToChar(149) ELSE ToChar(65)]
  /\ keyboard_buffer_write_ptr = s
  /\ keyboard_buffer_read_ptr = s
  /\ fifo = <<>>
  /\ LET u == update_interrupts(0, 1, 0, 0, 96, 0, 14)
     IN /\ hccarint = 0
        /\ hccatint = 1
        /\ keybdint = 0
        /\ vdpint = 0
        /\ psg_porta = 0
        /\ interrupts = u.interrupts
        /\ enc = u.enc
        /\ psg_portb = u.psg_portb
        /\ psg = PSG_writeReg(PSG_reset, 15, u.psg_portb)
        /\ cpu = z80_gen_int(z80_init, u.state, u.data)
  /\ ctrlreg = 58
  /\ psg_reg_address = 0
  /\ running = TRUE
  /\ nputs = 0
  /\ last = Op("port_read", 144, 149, 149, TRUE)

\* the same with the drives empty and the event loop's counters at zero
InitIdle(s) == IdleAt(s) /\ InitDisk /\ InitSched

\* cursors at which the keyboard specification starts with an empty ring
KbdStarts == {255}

InitKbd ==
  \/ Init /\ lpt /\ ~gotmodem /\ romsize = 8192
  \/ \E s \in KbdStarts : InitIdle(s)

\* a key press or the reset key, while the behaviour may still queue bytes
KeyPress == nputs < MaxPuts /\ \E c \in KeyCodes : HostKey(c)

ResetKey == nputs < MaxPuts /\ Reset

NextKbd ==
  \/ KeyPress
  \/ ResetKey
  \/ \E p \in {144, 145} : PortRead(p)

SpecKbd == InitKbd /\ [][NextKbd]_vars

\* the byte of the n-th put of a fill run
FillCode(n) == (n * 89 + 149) % 256

\* cursors at which a fill run starts
FillStarts == {200}

InitFill == \E s \in FillStarts : InitIdle(s)

\* one more put, as long as no byte of the run has been read
FillPut ==
  /\ nputs < MaxFill
  /\ Len(fifo) = nputs
  /\ HostKey(FillCode(nputs))

NextFill ==
  \/ FillPut
  \/ PortRead(144)

SpecFill == InitFill /\ [][NextFill]_vars

\* numbers of unread bytes at which the reset key is pressed
ResetAt == {0, 2, RingSize - 1}

\* one more key press, as long as nothing has been read and the machine
\* has not been reset
RstPut == last.op # "reset" /\ FillPut

\* the reset key, once, with ResetAt bytes unread
RstReset ==
  /\ nputs < MaxFill
  /\ Len(fifo) = nputs
  /\ last.op # "reset"
  /\ Len(fifo) \in ResetAt
  /\ Reset

NextRst ==
  \/ RstPut
  \/ RstReset
  \/ PortRead(144)

SpecRst == InitFill /\ [][NextRst]_vars

(***************************************************************************)
(* Scanline boundaries, with the CPU reading the keyboard in between       *)
(***************************************************************************)

\* a cold start, or an idle machine whose queue has been empty for all but
\* the last two boundaries the watchdog waits for
InitScan ==
  \/ Init /\ lpt /\ ~gotmodem /\ romsize = 8192
  \/ /\ IdleAt(1)
     /\ InitDisk
     /\ scanline = 0
     /\ next_watchdog = dog_speed - 2
     /\ dog = [before |-> dog_speed - 2, seen |-> <<>>]
     /\ nlines = 0
     /\ InitLoop
     /\ pace = "steady"
     /\ InitClock(0)

Boundary == nlines < MaxLines /\ \E ev \in HostEvents : Scanline(ev)

KbdRead == PortRead(144)

NextScan ==
  \/ Boundary
  \/ KbdRead
  \/ Fetch

SpecScan == InitScan /\ [][NextScan]_vars

(***************************************************************************)
(* Mounting and ejecting disk images                                       *)
(***************************************************************************)

\* sizes of the files offered: the three image sizes, an empty file, one
\* byte short of and one byte past an image size, a single sector
FileSizes == {204800, 409600, 819200, 0, 204799, 409601, 1024}

\* drive numbers passed: A, B and a drive that does not exist
DriveArgs == {0, 1, 2}

InitMount == Init /\ lpt /\ ~gotmodem /\ romsize = 8192

NextMount ==
  \/ \E d \in DriveArgs, s \in FileSizes : DiskInsert(d, s)
  \/ \E d \in DriveArgs : DiskEject(d)

SpecMount == InitMount /\ [][NextMount]_vars

(***************************************************************************)
(* The CPU driving the disk controller                                     *)
(***************************************************************************)

\* started with a 200K image in drive A and drive B empty
InitDiskA ==
  /\ InitMem /\ romsize = 8192
  /\ InitDev /\ lpt /\ ~gotmodem
  /\ InitSched
  /\ InitCpu
  /\ LET m == disksys_insert([d \in {0, 1} |-> 0],
                             [d \in {0, 1} |-> "DISK_NONE"], 0, 204800)
     IN disk = m.disk /\ disktype = m.disktype
  /\ trk = 0 /\ sec = 0 /\ dat = 0 /\ stat = 0
  /\ disksys_light = 0
  /\ tick = 0
  /\ mode = 0
  /\ buf = [file |-> 0, off |-> 0, patch |-> <<>>]
  /\ bufptr = 0
  /\ buflen = 0
  /\ xfer = "none"
  /\ ncmds = 0
  /\ nreads = 0
  /\ ctrlreg = 58
  /\ psg_reg_address = 0
  /\ running = TRUE
  /\ nputs = 0
  /\ last = Op("init", 0, 0, 0, TRUE)

\* port writes: drive select A and B, sector 1 and 6, data register,
\* READ-SECTOR, FORCE-INTERRUPT, READ-STATUS, the out-of-band command,
\* RESTORE, step, and a byte that is no command
DiskWrites ==
  {<<207, 2>>, <<207, 4>>, <<194, 1>>, <<194, 6>>, <<195, 90>>,
   <<192, 136>>, <<192, 208>>, <<192, 192>>, <<192, 224>>, <<192, 7>>,
   <<192, 89>>, <<192, 17>>}

DiskCmd == ncmds < MaxCmds /\ \E pv \in DiskWrites : PortWrite(pv[1], pv[2])

DiskData == nreads < MaxReads /\ PortRead(195)

DiskStatus == last.op # "disk_read" /\ PortRead(192)

NextDisk ==
  \/ DiskCmd
  \/ DiskData
  \/ DiskStatus

SpecDisk == InitDiskA /\ [][NextDisk]_vars

\* one sector transfer read to its end: select drive A, sector 1,
\* READ-SECTOR, then data-port reads
XferWrites == <<(<<207, 2>>), (<<194, 1>>), (<<192, 136>>)>>

XferCmd ==
  /\ ncmds < Len(XferWrites)
  /\ PortWrite(XferWrites[ncmds + 1][1], XferWrites[ncmds + 1][2])

XferData ==
  /\ ncmds = Len(XferWrites)
  /\ nreads < BufSize + MaxOverrun
  /\ PortRead(195)

NextXfer ==
  \/ XferCmd
  \/ XferData

SpecXfer == InitDiskA /\ [][NextXfer]_vars

\* commands and register writes with longer runs of data-port reads in
\* between
CursorData == nreads < MaxCursorReads /\ PortRead(195)

NextCursor ==
  \/ DiskCmd
  \/ CursorData

SpecCursor == InitDiskA /\ [][NextCursor]_vars

(***************************************************************************)
(* The disk controller across scanline boundaries                          *)
(***************************************************************************)

\* port writes: drive select A, B and none, READ-STATUS, the out-of-band
\* command
TickWrites == {<<207, 2>>, <<207, 4>>, <<207, 0>>, <<192, 192>>, <<192, 224>>}

TickCmd == ncmds < MaxCmds /\ \E pv \in TickWrites : PortWrite(pv[1], pv[2])

\* the user ejects the image in drive A
TickEject == DiskEject(0)

NextTick ==
  \/ TickCmd
  \/ Boundary
  \/ TickEject
  \/ Fetch

SpecTick == InitDiskA /\ [][NextTick]_vars

(***************************************************************************)
(* Two video frames of scanline boundaries                                 *)
(***************************************************************************)

InitFrame == Init /\ lpt /\ ~gotmodem /\ romsize = 8192

\* a boundary at which keyboard_poll() finds nothing
FrameLine == nlines < MaxFrameLines /\ Scanline("none")

NextFrame ==
  \/ FrameLine
  \/ Fetch

SpecFrame == InitFrame /\ [][NextFrame]_vars

(***************************************************************************)
(* The end of a frame, with the CPU programming and polling the video chip *)
(***************************************************************************)

\* 260 boundaries after a cold start: the CPU has read the power-up byte
\* before the first of them, the queue has been empty since, and the next
\* boundary but one ends the first frame
InitVideo ==
  /\ IdleAt(1)
  /\ InitDisk
  /\ scanline = LastLine - 1
  /\ next_watchdog = LastLine - 1
  /\ dog = [before |-> LastLine - 1, seen |-> <<>>]
  /\ nlines = 0
  /\ InitLoop
  /\ pace = "steady"
  /\ InitClock((LastLine - 1) * FIRE_TICK)

\* a boundary at which keyboard_poll() finds nothing or the reset key
VideoLine == nlines < MaxLines /\ \E ev \in {"none", "reset"} : Scanline(ev)

\* bytes written to the video chip's address port: 0x20 as the value for
\* register 1, 0x81 to select register 1 (sent twice, 0x81 becomes the
\* value and clears bit 5)
VdpWrites == {32, 129}

VdpSetup == \E v \in VdpWrites : PortWrite(161, v)

\* the CPU reads the video status port
VdpAck == PortRead(161)

NextVideo ==
  \/ VideoLine
  \/ VdpSetup
  \/ VdpAck
  \/ Fetch

SpecVideo == InitVideo /\ [][NextVideo]_vars

(***************************************************************************)
(* The interrupt lines, with a modem connection, around the end of a frame *)
(***************************************************************************)

\* 260 boundaries after a cold start with a modem connection, the CPU
\* having done no more than set the frame-interrupt enable bit in register 1
\* of the video chip: the power-up byte is still queued, the keyboard line
\* asserted, and the next boundary but one ends the first frame
InitLines ==
  /\ InitMem /\ romsize = 8192
  /\ gotmodem = TRUE /\ modem_rx = <<>> /\ modem_tx = <<>>
  /\ samples = 0
  /\ vdp = [vdp_reset EXCEPT !.reg1 = 32]
  /\ lpt = TRUE /\ lpt_data = 0 /\ lpt_out = <<>>
  /\ InitDisk
  /\ InitCpu
  /\ scanline = LastLine - 1
  /\ next_watchdog = 0
  /\ dog = [before |-> 0, seen |-> <<>>]
  /\ nlines = 0
  /\ InitLoop
  /\ pace = "steady"
  /\ InitClock((LastLine - 1) * FIRE_TICK)
  /\ ctrlreg = 58
  /\ psg_reg_address = 0
  /\ running = TRUE
  /\ nputs = 0
  /\ last = Op("init", 0, 0, 0, TRUE)

\* the byte the modem server sends
ModemByte == 7

SocketData == ModemArrive(ModemByte)

\* the CPU reads the data port of a line: modem, keyboard, video status
LinePorts == {128, 144, 161}

LineRead == \E p \in LinePorts : PortRead(p)

NextLines ==
  \/ VideoLine
  \/ SocketData
  \/ LineRead
  \/ Fetch

SpecLines == InitLines /\ [][NextLines]_vars

(***************************************************************************)
(* The reset key, with RAM written, the mask set and images mounted        *)
(***************************************************************************)

\* a boundary at which keyboard_poll() finds nothing or the reset key
ResetLine == nlines < MaxLines /\ \E ev \in {"none", "reset"} : Scanline(ev)

\* the CPU selects PSG register 14 and enables the keyboard interrupt
MaskWrites == {<<65, 14>>, <<64, 32>>}

MaskSetup == \E pv \in MaskWrites : PortWrite(pv[1], pv[2])

\* the CPU stores a byte in RAM
RamStore == MemWrite(8192, 165)

\* the host mounts a 400K image in drive B
MountB == DiskInsert(1, 409600)

NextReset ==
  \/ ResetLine
  \/ MaskSetup
  \/ RamStore
  \/ MountB
  \/ Fetch

SpecReset == InitDiskA /\ [][NextReset]_vars

(***************************************************************************)
(* A quit request: the loop runs until its test finds the flag set         *)
(***************************************************************************)

\* a boundary at which keyboard_poll() finds nothing or a quit request
QuitLine == nlines < MaxLines /\ \E ev \in {"none", "quit"} : Scanline(ev)

\* z80_step(): an instruction that reads the keyboard port, or one whose
\* only bus access is its opcode fetch
QuitStep == KbdRead \/ Fetch

NextQuit ==
  \/ QuitLine
  \/ QuitStep
  \/ Shutdown

\* z80_step() returns and the loop test follows it: the loop does not stop
\* in front of a CPU step (fairness on the plain instruction; a keyboard
\* read taken in its place discharges it as well) nor in front of the exit
SpecQuit ==
  /\ InitScan
  /\ [][NextQuit]_vars
  /\ WF_vars(Fetch)
  /\ WF_vars(Shutdown)

(***************************************************************************)
(* The throttle on a host that reaches the boundaries at varying times     *)
(***************************************************************************)

\* readings of tv_nsec at which main() arms next_fire: the start of a
\* second, a tenth into it, and 10 microseconds before its end
ClockStarts == {0, 100000000, 999990000}

\* a cold start at one of these readings
InitThrottle ==
  /\ InitMem /\ romsize = 8192
  /\ InitDev /\ lpt /\ ~gotmodem
  /\ InitDisk
  /\ InitCpu
  /\ scanline = 0
  /\ next_watchdog = 0
  /\ dog = [before |-> 0, seen |-> <<>>]
  /\ nlines = 0
  /\ InitLoop
  /\ pace = "varying"
  /\ \E c \in ClockStarts : InitClock(c)
  /\ ctrlreg = 58
  /\ psg_reg_address = 0
  /\ running = TRUE
  /\ nputs = 0
  /\ last = Op("init", 0, 0, 0, TRUE)

\* a boundary at which keyboard_poll() finds nothing
ThrottleLine == nlines < MaxLines /\ Scanline("none")

NextThrottle ==
  \/ ThrottleLine
  \/ Fetch

SpecThrottle == InitThrottle /\ [][NextThrottle]_vars

(***************************************************************************)
(* The modem port with and without a connection                            *)
(***************************************************************************)

\* a cold start, with the connection made or not
InitModem == Init /\ lpt /\ romsize = 8192

\* without a connection: a byte becomes readable at the descriptor mosock
\* holds (0, the standard input, when modem_init() was skipped; the
\* unconnected socket when connect() failed)
StrayData(b) ==
  /\ running
  /\ UNCHANGED at
  /\ ~gotmodem
  /\ modem_rx = <<>>
  /\ modem_rx' = <<b>>
  /\ last' = Op("stray_data", 0, b, 0, FALSE)
  /\ UNCHANGED <<memVars, diskVars, schedVars, ctrlreg, psg_reg_address, intVars, kbdVars,
                 gotmodem, modem_tx, samples, vdp, lpt, lpt_data, lpt_out, running, nputs, fifo>>

\* a byte to read at the descriptor, connected or not
DescriptorData == SocketData \/ StrayData(ModemByte)

\* a boundary at which keyboard_poll() finds nothing
ModemLine == nlines < MaxLines /\ Scanline("none")

\* the CPU reads the modem port, and writes 0x5A to it
ModemRead == PortRead(128)

ModemSend == PortWrite(128, 90)

NextModem ==
  \/ ModemLine
  \/ DescriptorData
  \/ ModemRead
  \/ ModemSend
  \/ Fetch

SpecModem == InitModem /\ [][NextModem]_vars

(***************************************************************************)
(* The parallel port, with and without a printer file                      *)
(***************************************************************************)

\* a cold start, with the printer file opened or not
InitLpt == Init /\ ~gotmodem /\ romsize = 8192

\* control-register bytes: bit 2 clear (0x00, 0x01) and set (0x04, 0x3E)
CtrlVals == {0, 1, 4, 62}

\* bytes for the parallel data latch
LptVals == {65, 66}

CtrlWrite == \E v \in CtrlVals : PortWrite(0, v)

LptWrite == \E v \in LptVals : PortWrite(176, v)

NextLpt ==
  \/ CtrlWrite
  \/ LptWrite
  \/ Fetch

SpecLpt == InitLpt /\ [][NextLpt]_vars

(***************************************************************************)
(* The audio thread beside the event loop                                  *)
(***************************************************************************)

\* bytes of the stream buffer SDL asks for: 512 samples of 16 bits
StreamLen == 1024

\* the audio device calls back while the emulation runs
AudioCallback ==
  /\ samples < MaxCallbacks * (StreamLen \div 2)
  /\ audio_callback(StreamLen)

\* a boundary at which keyboard_poll() finds nothing
AudioLine == nlines < MaxLines /\ Scanline("none")

\* the CPU selects PSG registers 14 and 15 and stores into them
PsgWrites == {<<65, 14>>, <<65, 15>>, <<64, 32>>}

PsgStore == \E pv \in PsgWrites : PortWrite(pv[1], pv[2])

NextAudio ==
  \/ AudioCallback
  \/ AudioLine
  \/ PsgStore
  \/ Fetch

SpecAudio == InitBus /\ [][NextAudio]_vars

(***************************************************************************)
(* The priority encoder on every input word                                *)
(***************************************************************************)

\* int_prio_enc_alt() called on its own with enable input EI and an input
\* word
EncApply(EI, word) ==
  /\ running
  /\ UNCHANGED at
  /\ enc' = int_prio_enc_alt(EI, word)
  /\ last' = Op("int_prio_enc", word, EI, 0, FALSE)
  /\ UNCHANGED <<memVars, diskVars, schedVars, ctrlreg, psg, psg_reg_address,
                 psg_porta, psg_portb, hccarint, hccatint, keybdint, vdpint,
                 interrupts, cpu, kbdVars, devVars, running, nputs, fifo>>

NextEnc == \E EI \in {0, 1}, word \in Byte : EncApply(EI, word)

InitEnc == InitBus /\ romsize = 8192

SpecEnc == InitEnc /\ [][NextEnc]_vars

(***************************************************************************)
(* The status byte in PSG register 15, with the CPU storing into the PSG   *)
(***************************************************************************)

\* a boundary at which keyboard_poll() finds nothing or a key
StatusLine == nlines < MaxLines /\ \E ev \in {"none", "key"} : Scanline(ev)

\* the CPU reads the PSG data port
PsgLoad == PortRead(64)

NextStatus ==
  \/ StatusLine
  \/ PsgStore
  \/ PsgLoad
  \/ KbdRead

SpecStatus == InitEnc /\ [][NextStatus]_vars

(***************************************************************************)
(* Properties                                                              *)
(***************************************************************************)

\* C1: a memory read returns ROM[a] when a < romSize and control-register
\* bit 0 is clear, and RAM[a] in every other case (bit 0 set, or
\* a >= romSize whatever the bit).
C1_ReadMap ==
  last.op = "mem_read" =>
    /\ (last.arg < romsize /\ ctrlreg % 2 = 0) => last.ret = ROM[last.arg]
    /\ ctrlreg % 2 = 1 => last.ret = RAM[last.arg]
    /\ last.arg >= romsize => last.ret = RAM[last.arg]

\* a read below romSize with the ROM enabled that returned the ROM byte, at
\* an address where ROM and RAM differ
C1_Witness ==
  /\ last.op = "mem_read"
  /\ last.arg < romsize
  /\ ctrlreg % 2 = 0
  /\ last.ret = ROM[last.arg]
  /\ ROM[last.arg] # RAM[last.arg]

\* C2: no memory write, port write or port read changes ROM; a memory write
\* of v to a sets RAM[a] = v, also at a ROM-shadowed address, and no other
\* step and no other cell of RAM changes.
C2_WriteFrame ==
  [][/\ ROM' = ROM
     /\ \A a \in Addrs :
          RAM'[a] # RAM[a] => last'.op = "mem_write" /\ last'.arg = a
     /\ last'.op = "mem_write" => RAM'[last'.arg] = last'.val]_vars

\* a write to a ROM-shadowed address reached RAM after port traffic, with
\* the ROM still holding the image
C2_Witness ==
  /\ last.op = "mem_write"
  /\ last.arg < romsize
  /\ ctrlreg % 2 = 0
  /\ RAM[last.arg] = last.val
  /\ ROM[last.arg] = RomImage(last.arg)
  /\ ROM[last.arg] # RAM[last.arg]
  /\ psg_reg_address # 0

(***************************************************************************)
(* Properties of the interrupt network                                     *)
(***************************************************************************)

\* the level of line k: 0 receive-ready, 1 transmit-ready, 2 keyboard,
\* 3 video
LineLevel(k) ==
  CASE k = 0 -> hccarint
    [] k = 1 -> hccatint
    [] k = 2 -> keybdint
    [] k = 3 -> vdpint

\* the lines that are asserted and enabled: line k is gated by mask bit 7-k
Requesting == {k \in 0..3 : LineLevel(k) # 0 /\ Bit(psg_porta, 7 - k) = 1}

\* the 3-bit code in bits 1-3 of the status byte
StatusCode == (psg_portb \div 2) % 8

\* C3: after a recompute the encoded vector is the number of the
\* lowest-numbered line that is asserted and enabled (receive-ready 0,
\* transmit-ready 1, keyboard 2, video 3); lines whose mask bit is clear do
\* not count, so with only masked lines asserted the output is the idle
\* pattern.
C3_LowestEnabledLine ==
  last.op = "update_interrupts" =>
    /\ Requesting # {} =>
         /\ StatusCode \in Requesting
         /\ \A k \in Requesting : StatusCode <= k
         /\ StatusCode = enc.Q0 + 2 * enc.Q1 + 4 * enc.Q2
    /\ Requesting = {} => psg_portb % 16 = 14

\* a recompute with the receive-ready line asserted but masked and the
\* video line asserted and enabled: the code is 3
C3_Witness ==
  /\ last.op = "update_interrupts"
  /\ hccarint = 1 /\ Bit(psg_porta, 7) = 0
  /\ Requesting = {3}
  /\ StatusCode = 3

\* C4: after a recompute a request is signalled to the CPU iff group-select
\* is not asserted (GS = 0), and that is the case iff at least one line is
\* asserted and enabled.
C4_RequestIffNotGS ==
  last.op = "update_interrupts" =>
    /\ cpu.int_pending <=> enc.GS = 0
    /\ enc.GS = 0 <=> Requesting # {}

\* a recompute with two lines requesting raised the request
C4_Witness ==
  /\ last.op = "update_interrupts"
  /\ Cardinality(Requesting) = 2
  /\ cpu.int_pending
  /\ enc.GS = 0

\* a step that is a call of update_interrupts() on its own
RecomputeStep == last'.op = "update_interrupts"

\* the line levels and the enable mask are the same before and after a step
InputsUnchanged ==
  /\ hccarint' = hccarint
  /\ hccatint' = hccatint
  /\ keybdint' = keybdint
  /\ vdpint' = vdpint
  /\ psg_porta' = psg_porta

\* C5: a recompute that follows a recompute with the same line levels and
\* mask yields the same encoder output and status byte, and when the CPU
\* has taken the request in between (the outputs in place are already those
\* of these inputs) the second recompute does not raise the request again.
C5_Idempotent ==
  [][(RecomputeStep /\ InputsUnchanged) =>
       /\ last.op = "update_interrupts" =>
            /\ enc' = enc
            /\ psg_portb' = psg_portb
            /\ psg'[15] = psg[15]
       /\ (/\ last.op = "int_ack"
           /\ enc' = enc
           /\ psg_portb' = psg_portb
           /\ interrupts' = interrupts) => ~cpu'.int_pending]_vars

\* C6: when no line is requesting after masking, a recompute leaves
\* group-select at 1 (the encoder's idle level, at which no request is
\* signalled) and no interrupt asserted towards the CPU.
C6_IdleNoRequest ==
  (last.op = "update_interrupts" /\ Requesting = {}) =>
    /\ enc.GS = 1
    /\ ~cpu.int_pending

\* C6 as stated: with no line requesting the recompute yields
\* groupSelect = false and no interrupt asserted.
C6_Original ==
  (last.op = "update_interrupts" /\ Requesting = {}) =>
    /\ enc.GS = 0
    /\ ~cpu.int_pending

\* a recompute with three lines asserted, all of them masked, that cleared
\* a request left pending by an earlier recompute
C6_Witness ==
  /\ last.op = "update_interrupts"
  /\ Requesting = {}
  /\ hccarint = 1 /\ keybdint = 1 /\ vdpint = 1
  /\ enc.GS = 1
  /\ ~cpu.int_pending
  /\ interrupts = 176

\* C7: when a recompute raises a request, the acknowledge-cycle data byte
\* is the status byte written to PSG port B with all bits but 1-3 cleared:
\* twice the 3-bit code, bit 0 (error-output) not included.
C7_AckDataIsCode ==
  (last.op = "update_interrupts" /\ cpu.int_pending) =>
    /\ cpu.int_data = 2 * ((psg[15] \div 2) % 8)
    /\ psg[15] = psg_portb

\* C7 as stated: the data byte equals the low 4 bits of the status byte.
C7_Original ==
  (last.op = "update_interrupts" /\ cpu.int_pending) =>
    cpu.int_data = psg[15] % 16

\* a request raised for the keyboard line: status byte 5, data byte 4
C7_Witness ==
  /\ last.op = "update_interrupts"
  /\ cpu.int_pending
  /\ Requesting = {2}
  /\ psg[15] = 5
  /\ cpu.int_data = 4

\* C8: after a recompute PSG register 15 holds the status byte, with
\* error-output in bit 0 and Q0, Q1, Q2 in bits 1, 2, 3; the recompute
\* leaves the high nibble of the status byte psg_portb as it was.
C8_StatusByteLayout ==
  [][RecomputeStep =>
       /\ psg'[15] = psg_portb'
       /\ Bit(psg'[15], 0) = enc'.EO
       /\ Bit(psg'[15], 1) = enc'.Q0
       /\ Bit(psg'[15], 2) = enc'.Q1
       /\ Bit(psg'[15], 3) = enc'.Q2
       /\ psg_portb' \div 16 = psg_portb \div 16]_vars

\* a recompute replaced a stale status (transmit-ready) by the video code
\* and overwrote what the CPU had stored in register 15
C8_Witness ==
  /\ last.op = "update_interrupts"
  /\ Requesting = {3}
  /\ psg[15] = 7
  /\ enc = [GS |-> 0, Q0 |-> 1, Q1 |-> 1, Q2 |-> 0, EO |-> 1]
  /\ interrupts = 16

(***************************************************************************)
(* Properties of the keyboard ring buffer                                  *)
(***************************************************************************)

\* a step that is a read of port 0x90, which calls keyboard_buffer_get();
\* last'.val is the byte the call returned
GetStep == last'.op = "port_read" /\ last'.arg = 144

\* C9: from an empty ring, while at most 255 bytes have been put, every
\* get() returns the oldest byte put and not yet returned, and the ring is
\* empty (cursors equal) exactly when every byte put has been returned: n
\* puts followed by n gets return the n bytes in order and leave the ring
\* empty.
C9_FifoOrder ==
  [][nputs' <= RingSize - 1 =>
       /\ (GetStep /\ fifo # <<>>) =>
            /\ last'.val = Head(fifo)
            /\ fifo' = Tail(fifo)
       /\ (keyboard_buffer_read_ptr' = keyboard_buffer_write_ptr')
            <=> (fifo' = <<>>)]_vars

\* 255 bytes were put across the wrap of the write cursor and the last get
\* returned the 255th of them, leaving the ring empty
C9_Witness ==
  /\ nputs = RingSize - 1
  /\ last.op = "port_read" /\ last.arg = 144
  /\ last.val = FillCode(RingSize - 2)
  /\ fifo = <<>>
  /\ keyboard_buffer_read_ptr = keyboard_buffer_write_ptr
  /\ keyboard_buffer_write_ptr = 199

\* C10: get() on an empty ring (cursors equal) returns 255 and changes
\* neither cursor nor the buffer, so the ring stays empty.
C10_GetOnEmpty ==
  [][(GetStep /\ keyboard_buffer_read_ptr = keyboard_buffer_write_ptr) =>
       /\ last'.val = 255
       /\ keyboard_buffer_read_ptr' = keyboard_buffer_read_ptr
       /\ keyboard_buffer_write_ptr' = keyboard_buffer_write_ptr
       /\ keyboard_buffer' = keyboard_buffer
       /\ keyboard_buffer_read_ptr' = keyboard_buffer_write_ptr']_vars

\* a get on a ring emptied by earlier reads returned the sentinel, although
\* the cell under the read cursor holds a stale key byte
C10_Witness ==
  /\ last.op = "port_read" /\ last.arg = 144
  /\ last.val = 255
  /\ last.ret = 0
  /\ keyboard_buffer_read_ptr = keyboard_buffer_write_ptr
  /\ keyboard_buffer_read_ptr \in DOMAIN keyboard_buffer
  /\ nputs > 0

\* C11: after exactly 256 put() calls from an empty ring with no get(), the
\* 8-bit write cursor is back on the read cursor, so the ring tests empty,
\* and a get() then returns the sentinel 255 and leaves the cursors where
\* they are, although 256 bytes were written.
C11_WrapAliases ==
  [][(nputs = RingSize /\ Len(fifo) = RingSize) =>
       /\ keyboard_buffer_write_ptr = keyboard_buffer_read_ptr
       /\ keyboard_buffer_empty(keyboard_buffer_read_ptr,
                                keyboard_buffer_write_ptr) = 1
       /\ GetStep =>
            /\ last'.val = 255
            /\ keyboard_buffer_read_ptr' = keyboard_buffer_read_ptr]_vars

\* 256 bytes were put and none read, and the read of port 0x90 that followed
\* got the sentinel
C11_Witness ==
  /\ nputs = RingSize
  /\ Len(fifo) = RingSize - 1
  /\ last.op = "port_read" /\ last.arg = 144
  /\ last.val = 255
  /\ \A i \in 0..(RingSize - 1) : i \in DOMAIN keyboard_buffer

\* the ring holds exactly the power-up byte
HoldsPowerUp ==
  /\ keyboard_buffer_write_ptr = (keyboard_buffer_read_ptr + 1) % 256
  /\ ToU8(Cell(keyboard_buffer, keyboard_buffer_read_ptr)) = 149

\* C12: after initialisation the queue holds the power-up byte 0x95 and the
\* keyboard-data-ready line is asserted; the first read of port 0x90
\* returns 0x95 and clears the line, with a recompute that takes the line
\* out of the composite word; a read of port 0x90 with the queue empty
\* returns 0.
C12_ColdStart ==
  [][/\ last.op = "init" => (HoldsPowerUp /\ keybdint = 1)
     /\ (last.op = "init" /\ GetStep) =>
          /\ last'.ret = 149
          /\ keybdint' = 0
          /\ last'.upd
          /\ Bit(interrupts', 5) = 0
          /\ keyboard_buffer_read_ptr' = keyboard_buffer_write_ptr'
     /\ (GetStep /\ keyboard_buffer_read_ptr = keyboard_buffer_write_ptr) =>
          last'.ret = 0]_vars

\* the two reads after a cold start: the power-up byte has been read and
\* the second read found the queue empty
C12_Witness ==
  /\ nputs = 0
  /\ keyboard_buffer = (0 :> ToChar(149))
  /\ keyboard_buffer_read_ptr = 1
  /\ keyboard_buffer_write_ptr = 1
  /\ last.op = "port_read" /\ last.arg = 144
  /\ last.val = 255
  /\ last.ret = 0
  /\ keybdint = 0

\* a step that is one scanline boundary
ScanStep == last'.op = "scanline" /\ nlines' = nlines + 1

\* C13: at a scanline boundary that finds the queue non-empty, the
\* keyboard-data-ready line is asserted when the boundary is over, and if
\* it was not asserted before, the boundary recomputes the interrupts with
\* the line in the composite word.  A byte put earlier (by host input, by
\* the watchdog, or left behind by a read of port 0x90) therefore has the
\* line asserted at the next boundary at the latest.
C13_LineAtBoundary ==
  [][(ScanStep /\ keyboard_buffer_read_ptr # keyboard_buffer_write_ptr) =>
       /\ keybdint' = 1
       /\ keybdint = 0 =>
            /\ last'.upd
            /\ Bit(interrupts', 5) = 1]_vars

\* a key was queued behind the power-up byte, the CPU read the power-up
\* byte (which cleared the line), and the next boundary asserted the line
\* for the key still queued
C13_Witness ==
  /\ last.op = "scanline"
  /\ nputs = 1
  /\ fifo = <<KeyByte>>
  /\ keyboard_buffer_read_ptr = 1
  /\ keyboard_buffer_write_ptr = 2
  /\ keybdint = 1
  /\ Bit(interrupts, 5) = 1

\* an observation of the watchdog that found the queue empty and queued
\* nothing
Quiet(o) == o.empty /\ ~o.put

\* the boundaries in a row, up to now, at which the watchdog found the
\* queue empty and queued nothing; the ones before the behaviour began
\* count when the row reaches back that far
RECURSIVE EmptyRun(_, _)
EmptyRun(before, seen) ==
  IF seen = <<>> THEN before
  ELSE IF Quiet(seen[Len(seen)])
    THEN 1 + EmptyRun(before, SubSeq(seen, 1, Len(seen) - 1))
    ELSE 0

\* C14: at a boundary the watchdog queues 0x94 exactly when it finds the
\* queue empty for the watchdogThreshold-th boundary in a row, and then the
\* counter is 0 again; a boundary that finds the queue non-empty sets the
\* counter to 0 and queues no watchdog byte; the counter is the length of
\* the current row of empty boundaries.
C14_Watchdog ==
  [][ScanStep =>
       LET o == dog'.seen[Len(dog'.seen)]
       IN /\ o.put <=> (o.empty /\ EmptyRun(dog.before, dog.seen) + 1 = dog_speed)
          /\ o.put =>
               /\ next_watchdog' = 0
               /\ ToU8(Cell(keyboard_buffer',
                            (keyboard_buffer_write_ptr' + 255) % 256)) = 148
          /\ ~o.empty => (next_watchdog' = 0 /\ ~o.put)
          /\ next_watchdog' = EmptyRun(dog'.before, dog'.seen)]_vars

\* the watchdog byte was queued at the second boundary of the run, the one
\* that completed the row of dog_speed empty boundaries
C14_Witness ==
  /\ last.op = "scanline"
  /\ Len(dog.seen) = 2
  /\ Quiet(dog.seen[1])
  /\ dog.seen[2].put
  /\ next_watchdog = 0
  /\ fifo = <<148>>

(***************************************************************************)
(* Properties of the disk controller                                       *)
(***************************************************************************)

\* a step that is disksys_insert(drive, file) with last'.arg the drive and
\* last'.val the file's size
InsertStep == last'.op = "insert"

\* C15: mounting into an empty drive 0 or 1: a 204800-byte image yields
\* kind 5.25"SS, 409600 bytes 5.25"DS, 819200 bytes 3.5"DS, each with the
\* image open and result 0; a file of any other size is rejected with an
\* error result and the drive stays unmounted: no image handle, kind None.
C15_MountBySize ==
  [][(InsertStep /\ last'.arg \in {0, 1} /\ disk[last'.arg] = 0) =>
       LET d == last'.arg
           size == last'.val
       IN /\ size = 204800 => disktype'[d] = "DISK_525SS"
          /\ size = 409600 => disktype'[d] = "DISK_525DS"
          /\ size = 819200 => disktype'[d] = "DISK_35DS"
          /\ size \in {204800, 409600, 819200} =>
               (disk'[d] = size /\ last'.ret = 0)
          /\ size \notin {204800, 409600, 819200} =>
               /\ last'.ret = -1
               /\ disk'[d] = 0
               /\ disktype'[d] = "DISK_NONE"
          /\ \A e \in {0, 1} \ {d} :
               disk'[e] = disk[e] /\ disktype'[e] = disktype[e]]_vars

\* drive A holds a 200K image, and a file one byte short of that size has
\* just been refused for the empty drive B
C15_Witness ==
  /\ last.op = "insert" /\ last.arg = 1 /\ last.val = 204799
  /\ last.ret = -1
  /\ disk[1] = 0 /\ disktype[1] = "DISK_NONE"
  /\ disk[0] = 204800 /\ disktype[0] = "DISK_525SS"

\* a step that writes command byte c to the controller's command port
CmdStep(c) ==
  last'.op = "disk_write" /\ last'.arg % 16 = 0 /\ last'.val = c

\* a step that reads the controller's data port
DataStep == last'.op = "disk_read" /\ last'.arg % 16 = 3

\* the transfer buffer, its cursor and the controller mode stay as they are
NoTransfer == buf' = buf /\ bufptr' = bufptr /\ mode' = mode

\* C16 as stated: READ-SECTOR with the sector register 0 or above 5 sets
\* the seek-error bit and leaves buffer, cursor and mode unchanged.
C16_Original ==
  [][(CmdStep(136) /\ (sec = 0 \/ sec > 5)) =>
       (Bit(stat', 4) = 1 /\ NoTransfer)]_vars

\* C16: READ-SECTOR with the sector register 0 or above 5 leaves the
\* transfer buffer, the cursor and the mode unchanged; it sets the
\* seek-error bit when drive A or B is selected, and when no such drive is
\* selected it sets not-ready and leaves seek-error clear.
C16_BadSector ==
  [][(CmdStep(136) /\ (sec = 0 \/ sec > 5)) =>
       /\ NoTransfer
       /\ disksys_light \in {1, 2} => Bit(stat', 4) = 1
       /\ disksys_light \notin {1, 2} =>
            (Bit(stat', 4) = 0 /\ Bit(stat', 7) = 1)]_vars

\* READ-SECTOR was issued for sector 6 of drive A and ended in seek-error
C16_Witness ==
  /\ last.op = "disk_write" /\ last.arg = 192 /\ last.val = 136
  /\ disksys_light = 1
  /\ sec = 6
  /\ Bit(stat, 4) = 1
  /\ mode = DM_NONE
  /\ bufptr = 0

\* C17: READ-SECTOR with no drive A or B selected, or with the selected
\* drive empty, sets the not-ready bit, leaves the image and the transfer
\* buffer alone (the process goes on running, the buffer is unchanged) and
\* does not enter TransferActive.
C17_DriveChecked ==
  [][(/\ CmdStep(136)
      /\ \/ disksys_light \notin {1, 2}
         \/ disk[disksys_light - 1] = 0) =>
       /\ Bit(stat', 7) = 1
       /\ running'
       /\ buf' = buf
       /\ mode' = mode]_vars

\* C18: after a successful READ-SECTOR, while fewer than 1024 data-port
\* reads have followed the controller is TransferActive, and the 1024th
\* data-port read leaves it Idle with the data-request and busy bits clear.
C18_SectorReadOut ==
  [][xfer' = "sector" =>
       /\ nreads' < 1024 => mode' = DM_RDSEC
       /\ (DataStep /\ nreads' = 1024) =>
            /\ mode' = DM_NONE
            /\ Bit(stat', 1) = 0
            /\ Bit(stat', 0) = 0]_vars

\* the 1024th data-port read after READ-SECTOR of track 0, sector 1 of the
\* image in drive A has returned the controller to Idle
C18_Witness ==
  /\ xfer = "sector"
  /\ nreads = 1024
  /\ mode = DM_NONE
  /\ buf.file = 204800 /\ buf.off = 0
  /\ last.op = "disk_read"

\* C19: while TransferActive with the cursor on a byte of the transfer (the
\* k-th read finds it on byte k of L), a data-port read returns that byte,
\* the last one included, and the cursor moves on from every byte but the
\* last.
C19_EveryByteDelivered ==
  [][(DataStep /\ mode = DM_RDSEC /\ bufptr >= 0 /\ bufptr <= buflen - 1) =>
       /\ last'.ret = BufCell(buf, bufptr)
       /\ bufptr < buflen - 1 => bufptr' = bufptr + 1]_vars

\* C20: FORCE-INTERRUPT clears the busy and not-ready bits and leaves the
\* controller Idle, whatever state it was issued in, and a data-port read
\* that follows returns the data register.
C20_ForceInterrupt ==
  [][/\ CmdStep(208) =>
          /\ Bit(stat', 0) = 0
          /\ Bit(stat', 7) = 0
          /\ mode' = DM_NONE
     /\ (/\ last.op = "disk_write" /\ last.arg % 16 = 0 /\ last.val = 208
         /\ DataStep) =>
          last'.ret = dat]_vars

\* the k-th byte (k from 1) of the status block for track register t and
\* sector register s: track, side 0, sector, media descriptor 3, two zero
\* "CRC" bytes
StatusBlock(t, s, k) ==
  CASE k = 1 -> t
    [] k = 3 -> s
    [] k = 4 -> 3
    [] OTHER -> 0

\* C21: READ-STATUS, in whatever state and after whatever transfers it is
\* issued, enters TransferActive with length 6, and the k-th data-port read
\* that follows it (k = 1..6) returns the k-th byte of the block {track
\* register, 0, sector register, 3, 0, 0}.
C21_ReadStatus ==
  [][/\ CmdStep(192) => (mode' = DM_RDSEC /\ buflen' = 6)
     /\ (xfer = "status" /\ DataStep /\ nreads < 6) =>
          last'.ret = StatusBlock(trk, sec, nreads + 1)]_vars

\* the rotational-position counter has wrapped on this step: it has moved,
\* and it has come round to 0 or gone up (a counter that is decremented goes
\* up only where it wraps)
Wrapped == tick' # tick /\ (tick' = 0 \/ tick' > tick)

\* the controller is Idle and the selected drive holds an image
Spinning ==
  mode = DM_NONE /\ disksys_light \in {1, 2} /\ disk[disksys_light - 1] # 0

\* C22: every scanline boundary's disk tick moves the rotational-position
\* counter on; a tick of the Idle controller leaves the index-pulse bit set
\* only if the counter wraps on that tick and a drive is selected that holds
\* an image, and leaves it clear when no drive is selected or the selected
\* drive is empty.
C22_IndexPulse ==
  [][ScanStep =>
       /\ tick' # tick
       /\ (mode = DM_NONE /\ Bit(stat', 1) = 1) => (Wrapped /\ Spinning)
       /\ (mode = DM_NONE /\ ~Spinning) => Bit(stat', 1) = 0]_vars

\* C23: counted from the start of the loop with the scanline index 0, the
\* index is the number of boundaries modulo 262 and lies in 0..261 between
\* boundaries, and next_frame() has been called once for every 262
\* boundaries: after exactly 262 boundaries the index is 0 again and one
\* frame has been presented.
C23_FrameLength ==
  /\ scanline \in 0..261
  /\ scanline = nlines % 262
  /\ frames = nlines \div 262
  /\ nlines = 262 => (scanline = 0 /\ frames = 1)

\* the 262nd boundary has just ended the first frame
C23_Witness ==
  /\ nlines = 262
  /\ last.op = "scanline"
  /\ scanline = 0
  /\ frames = 1

\* the video line goes from clear to asserted, and back, on this step
VdpRise == vdpint = 0 /\ vdpint' = 1
VdpFall == vdpint = 1 /\ vdpint' = 0

\* a step that reads the video status port 0xA1
AckStep == last'.op = "port_read" /\ last'.arg = 161

\* a step in which the machine is reset: reinit_cpu() on its own, or a
\* boundary at which keyboard_poll() finds the reset key
ResetStep ==
  \/ last'.op = "reset"
  \/ ScanStep /\ last'.arg = EventCode("reset")

\* the step is the boundary that ends a frame, and register 1 has the
\* frame-interrupt-enable bit set
EnabledFrameEnd ==
  /\ ScanStep
  /\ scanline = LastLine /\ scanline' = 0 /\ frames' = frames + 1
  /\ Bit(vdp.reg1, 5) = 1

\* C24 as stated: the video line rises only at a frame end with the enable
\* bit set (so at most once per frame), and once asserted it stays
\* asserted, and so cannot be asserted again, until a read of the video
\* status port 0xA1.
C24_Original ==
  [][/\ VdpRise => EnabledFrameEnd
     /\ VdpFall => AckStep]_vars

\* C24: the video line rises only at a frame end with the enable bit set
\* (so at most once per frame), and once asserted it stays asserted, and so
\* cannot be asserted again, until a read of the video status port 0xA1 or
\* a reset has cleared it.
C24_VideoLine ==
  [][/\ VdpRise => EnabledFrameEnd
     /\ VdpFall => (AckStep \/ ResetStep)]_vars

\* the boundary that ended the first frame has raised the video line
C24_Witness ==
  /\ last.op = "scanline"
  /\ frames = 1 /\ scanline = 0
  /\ Bit(vdp.reg1, 5) = 1
  /\ vdpint = 1
  /\ Bit(interrupts, 4) = 1

\* a step on which the CPU reads port p
ReadOf(p) == last'.op = "port_read" /\ last'.arg = p

\* C25 as stated: the receive-ready, keyboard and video lines fall only on
\* a read of their own data port (0x80, 0x90, 0xA1), a reset included among
\* the operations that leave them asserted, and the transmit-ready line is
\* asserted in every state.
C25_Original ==
  /\ [][/\ (hccarint = 1 /\ hccarint' = 0) => ReadOf(128)
        /\ (keybdint = 1 /\ keybdint' = 0) => ReadOf(144)
        /\ VdpFall => ReadOf(161)]_vars
  /\ [](hccatint = 1)

\* C25 (amended): the keyboard line falls only on a read of port 0x90; the
\* receive-ready and video lines fall only on a read of their own data port
\* (0x80, 0xA1) or on a reset, which clears both and asserts the keyboard
\* line; the transmit-ready line is asserted in every state.
C25_StickyLines ==
  /\ [][/\ (hccarint = 1 /\ hccarint' = 0) => (ReadOf(128) \/ ResetStep)
        /\ (keybdint = 1 /\ keybdint' = 0) => ReadOf(144)
        /\ VdpFall => (ReadOf(161) \/ ResetStep)
        /\ ResetStep => (hccarint' = 0 /\ keybdint' = 1)]_vars
  /\ [](hccatint = 1)

\* C25 witness: a boundary at which the reset key was found has left the
\* keyboard and transmit-ready lines asserted and the receive-ready line
\* clear with a modem byte still unread.
C25_Witness ==
  /\ last.op = "scanline" /\ last.arg = EventCode("reset")
  /\ hccatint = 1 /\ keybdint = 1
  /\ hccarint = 0 /\ modem_rx # <<>>

C27_Quit ==
  /\ [][death_flag = 1 =>
          /\ nlines' = nlines /\ scanline' = scanline
          /\ death_flag' = 1
          /\ at = "step" =>
                (at' = "top" /\ running' /\ last'.op \in {"mem_read", "port_read"})
          /\ at = "top" => (~running' /\ last'.op = "shutdown")]_vars
  /\ (death_flag = 1 ~> ~running)

\* C27 witness: the loop has been left after a quit request and the CPU
\* step of the iteration that found it.
C27_Witness ==
  /\ ~running /\ last.op = "shutdown"
  /\ death_flag = 1 /\ at = "top" /\ nlines > 0

\* C28: at every boundary a sleep that is asked for is not negative; when
\* the deadline (the previous reading of the clock plus one scanline time)
\* lies ahead, the throttle sleeps for the time left to it, and when it has
\* passed no sleep is asked for.
C28_Throttle ==
  [][ScanStep =>
       /\ nap'.asked => nap'.dur >= 0
       /\ nap'.due > 0 => (nap'.asked /\ nap'.dur = nap'.due)
       /\ nap'.due < 0 => ~nap'.asked]_vars

\* C29: a write of a value above 0x1F to port 0x41 and any read of port 0x41
\* end the emulation with a diagnostic, the rejected write leaves the PSG
\* address latch as it was, and no step is taken once the emulation has
\* ended.
C29_FatalPort ==
  [][/\ running
     /\ (last'.op \in {"port_write", "fatal_write"} /\ last'.arg = 65
           /\ last'.val > 31) =>
          /\ ~running'
          /\ last'.op = "fatal_write"
          /\ psg_reg_address' = psg_reg_address
     /\ (last'.op \in {"port_read", "fatal_read"} /\ last'.arg = 65) =>
          /\ ~running'
          /\ last'.op = "fatal_read"
          /\ psg_reg_address' = psg_reg_address]_vars

\* C29 witness: the emulation has ended on the write of 0x20 to port 0x41,
\* the latch still holding the register number written before.
C29_Witness ==
  /\ ~running
  /\ last.op = "fatal_write" /\ last.arg = 65 /\ last.val = 32
  /\ psg_reg_address = 14

CtrlStep == last'.op = "port_write" /\ last'.arg = 0

\* C31: a control-register write appends the latched parallel byte to the
\* output exactly once when bit 2 goes from 0 to 1 with the printer file
\* open, and leaves the output as it was when bit 2 stays 1, stays 0, falls,
\* or no file is open; no other step emits anything.
C31_Strobe ==
  [][/\ CtrlStep =>
          /\ ctrlreg' = last'.val
          /\ IF Bit(ctrlreg, 2) = 0 /\ Bit(last'.val, 2) = 1 /\ lpt
               THEN lpt_out' = Append(lpt_out, lpt_data)
               ELSE lpt_out' = lpt_out
     /\ ~CtrlStep => lpt_out' = lpt_out]_vars

\* C31 witness: with the printer file open, a write that keeps bit 2 set
\* after the strobe has emitted the latched byte 0x42 once.
C31_Witness ==
  /\ lpt /\ lpt_out = <<66>>
  /\ last.op = "port_write" /\ last.arg = 0 /\ last.val = 4
  /\ ctrlreg = 4 /\ lpt_data = 66

\* a step of the audio thread
AudioStep == last'.op = "audio_callback"

\* C32: samples are generated by the audio callback only, never by a step
\* of the event loop, and a run of the callback leaves memory, the control
\* register, the PSG registers and latch, the interrupt network, the disk
\* controller, the keyboard queue and the loop's counters as they were.
C32_OneOwner ==
  [][/\ samples' # samples => AudioStep
     /\ AudioStep =>
          /\ samples' = samples + last'.arg \div 2
          /\ UNCHANGED <<memVars, ctrlreg, psg_reg_address, intVars,
                         diskVars, kbdVars, schedVars, at, fifo>>]_vars

\* C32 witness: the callback has run after the event loop has processed a
\* boundary and the CPU has written the interrupt mask.
C32_Witness ==
  /\ last.op = "audio_callback"
  /\ samples = StreamLen \div 2
  /\ nlines > 0 /\ psg_porta = 32

\* a step on which the encoder is applied with the enable input inactive
EncStep == last'.op = "int_prio_enc" /\ last'.val = 0

\* C33 as stated: with all eight inputs at logic 0 the encoder sets
\* group-select and Q0..Q2 and clears error-output; for every other input
\* word error-output is high.
C33_Original ==
  [][EncStep =>
       IF last'.arg = 0
         THEN enc' = [GS |-> 1, Q0 |-> 1, Q1 |-> 1, Q2 |-> 1, EO |-> 0]
         ELSE enc'.EO = 1]_vars

\* C33 (amended): with all eight inputs at logic 1 (no input active) the
\* encoder sets group-select and Q0..Q2 and clears error-output; for every
\* other input word error-output is high.
C33_Saturation ==
  [][EncStep =>
       IF last'.arg = 255
         THEN enc' = [GS |-> 1, Q0 |-> 1, Q1 |-> 1, Q2 |-> 1, EO |-> 0]
         ELSE enc'.EO = 1]_vars

\* C33 witness: the encoder has been applied to the word with all eight
\* inputs high.
C33_Witness ==
  /\ last.op = "int_prio_enc" /\ last.val = 0 /\ last.arg = 255
  /\ enc.GS = 1 /\ enc.EO = 0

\* the highest-numbered input of word w that is low
TopLow(w) == CHOOSE k \in 0..7 :
  Bit(w, k) = 0 /\ \A j \in (k + 1)..7 : Bit(w, j) = 1

\* C34: with at least one input low the code Q0 + 2*Q1 + 4*Q2 is 7 minus
\* the number of the highest-numbered low input (bit 7 gives 0, bit 0
\* gives 7), with group-select clear.
C34_CodeTable ==
  [][(EncStep /\ last'.arg # 255) =>
       /\ enc'.Q0 + 2 * enc'.Q1 + 4 * enc'.Q2 = 7 - TopLow(last'.arg)
       /\ enc'.GS = 0]_vars

\* C34 witness: the encoder has been applied to the word in which bit 0 is
\* the only low input, and all three outputs are 1.
C34_Witness ==
  /\ last.op = "int_prio_enc" /\ last.val = 0 /\ last.arg = 254
  /\ enc.Q0 = 1 /\ enc.Q1 = 1 /\ enc.Q2 = 1 /\ enc.GS = 0

\* the low nibble the encoder yields for the current lines and mask
FreshNibble ==
  LET w == 128 * hccarint + 64 * hccatint + 32 * keybdint + 16 * vdpint
      e == int_prio_enc_alt(0, IntPrio(w, psg_porta))
  IN e.EO + 2 * e.Q0 + 4 * e.Q1 + 8 * e.Q2

\* C35: after every port operation and every boundary the low nibble of
\* PSG register 15, which a read of port 0x40 returns with the latch at
\* 0x0F, is the encoder output for the current four lines and the current
\* mask.
C35_NeverStale == PSG_readReg(psg, 15) % 16 = FreshNibble

\* C36: when a frame ends, each scanline index 0..239 has been rendered
\* exactly once since the frame end before and no index of 240 or above has
\* been rendered.
C36_RenderOnce ==
  [][frames' = frames + 1 =>
       /\ \A i \in 0..239 :
            Cardinality({k \in 1..Len(rendered) : rendered[k] = i}) = 1
       /\ \A k \in 1..Len(rendered) : rendered[k] < 240]_vars

\* C37: the sleep the throttle asks for at a boundary is never longer than
\* one scanline time, whatever the previous deadline and the reading of the
\* clock, readings after a wrap of the nanosecond field included.
C37_SleepBounded ==
  [][ScanStep => (nap'.asked => nap'.dur <= FIRE_TICK)]_vars

\* C38: whenever the controller is TransferActive the cursor lies inside
\* the current transfer, 0 <= cursor <= length - 1 <= 1023.
C38_CursorInside ==
  mode = DM_RDSEC =>
    (0 <= bufptr /\ bufptr <= buflen - 1 /\ buflen - 1 <= BufSize - 1)

\* C39: the busy status bit is set exactly when the controller is
\* TransferActive; it is clear when Idle, and no command leaves the
\* controller TransferActive with busy clear.
C39_BusyExact == (Bit(stat, 0) = 1) <=> (mode = DM_RDSEC)

\* the bytes the ring holds between the read and the write cursor, oldest
\* first
Queued(kbuf, r, w) ==
  [k \in 1..((w - r) % 256) |-> ToU8(Cell(kbuf, (r + k - 1) % 256))]

\* the ring holds exactly the bytes put and not yet read
Synced ==
  fifo = Queued(keyboard_buffer, keyboard_buffer_read_ptr,
                keyboard_buffer_write_ptr)

\* what a reset does to the queue
ResetAppends ==
  ResetStep =>
    /\ keyboard_buffer_read_ptr' = keyboard_buffer_read_ptr
    /\ keyboard_buffer_write_ptr' = (keyboard_buffer_write_ptr + 1) % 256
    /\ Queued(keyboard_buffer', keyboard_buffer_read_ptr',
              keyboard_buffer_write_ptr')
         = Append(Queued(keyboard_buffer, keyboard_buffer_read_ptr,
                         keyboard_buffer_write_ptr), 149)
    /\ keybdint' = 1
    /\ Bit(interrupts', 5) = 1

\* a read of port 0x90 returns the oldest unread byte
ReadsInOrder ==
  (GetStep /\ fifo # <<>>) =>
    /\ last'.val = Head(fifo)
    /\ fifo' = Tail(fifo)

\* C40 as stated: a reset appends exactly one 0x95 behind any bytes still
\* unread, keeps those bytes and their order (the cursors are not reset)
\* and asserts the keyboard-data-ready line, so the CPU reads the older
\* bytes first and 0x95 last.
C40_Original == [][Synced => (ResetAppends /\ ReadsInOrder)]_vars

\* C40: the same, for a reset that comes while fewer than 255 bytes are
\* unread.
C40_ResetKeepsQueue ==
  [][Synced => /\ Len(fifo) < RingSize - 1 => ResetAppends
               /\ ReadsInOrder]_vars

\* two keys were unread when the machine was reset; three reads later the
\* last of them returned the power-up byte and emptied the queue
C40_Witness ==
  /\ nputs = 3
  /\ fifo = <<>>
  /\ last.op = "port_read" /\ last.arg = 144
  /\ last.val = 149
  /\ keyboard_buffer_read_ptr = keyboard_buffer_write_ptr
  /\ ToU8(Cell(keyboard_buffer, (keyboard_buffer_read_ptr + 253) % 256))
       = FillCode(0)

====
